---- MODULE Spec2Model ----
(***************************************************************************)
(* Service Write-Off Portal (Suitelet): the POST dispatcher, the           *)
(* single-item record handlers, the bulk handlers with their governance    *)
(* guard, and the CBSI "Bill and JE" reconciliation workflow.              *)
(*                                                                         *)
(* The host platform (N/record, N/runtime) is the environment: every host  *)
(* call may be rejected (throw), and every value the host hands back       *)
(* (totals, sublist lines, read-back amounts, remaining usage) is chosen   *)
(* by the environment from a small set.  Money is counted in cents.        *)
(*                                                                         *)
(* The read paths have specifications of their own: SpecRead is any       *)
(* sequence of requests to the A/R master list (count query, paged query,  *)
(* page fetches, de-duplication, page rendering) and of portal GETs, with  *)
(* or without loadData=true; SpecFormat applies formatCurrency and         *)
(* SpecClean applies getCleanErrorMessage to one argument.  SpecResume is  *)
(* the portal page resubmitting its selection after governance stops,      *)
(* under weak fairness.                                                    *)
(***************************************************************************)
EXTENDS Integers, Sequences, FiniteSets, TLC

\* ------------------------------------------------------------------ bounds
MaxBatch == 2         \* tokens in one selectedSOIds parameter
MaxRequests == 2      \* POST requests in one behaviour
MaxAmount == 2        \* largest amount (cents) the host reads back from a line
MaxLines == 2         \* lines of a payment sublist

\* ------------------------------------------------------- program constants
GOVERNANCE_THRESHOLD == 50
GOVERNANCE_THRESHOLD_CBSI == 150
NET_EFFECT_TOLERANCE == 1   \* 0.01, in cents

Orders == {1, 2}          \* internal ids of the sales orders the host knows
NoId == 0                 \* an absent / empty / whitespace-only parameter
None == "(absent)"

Actions == {"close", "auto-bill", "cbsi-bill-je", "queue", "unqueue", "add-note"}
BulkActions == {"close", "auto-bill", "cbsi-bill-je", "queue"}
Unknown == "bogus"

\* The values getRemainingUsage() can report: around both thresholds.
UsageLevels ==
    {GOVERNANCE_THRESHOLD - 1, GOVERNANCE_THRESHOLD,
     GOVERNANCE_THRESHOLD_CBSI - 1, GOVERNANCE_THRESHOLD_CBSI}
FullUsage == GOVERNANCE_THRESHOLD_CBSI

\* Host operations consume usage: inside a request the signal never grows.
\* remaining holds the value the last governance check read.
UsageAfter(r) == {b \in UsageLevels : b <= r}

\* Errors the host throws (the message text of the error object).
HostErrors == {"Address Validation Failed", "UNEXPECTED_ERROR"}

\* Token lists of a selectedSOIds parameter; token 0 is a blank token.
RECURSIVE SeqsUpTo(_, _)
SeqsUpTo(S, n) ==
    IF n = 0 THEN {<<>>}
    ELSE LET shorter == SeqsUpTo(S, n - 1)
         IN shorter \cup {Append(s, x) : s \in {t \in shorter : Len(t) = n - 1}, x \in S}

TokenLists == SeqsUpTo(Orders \cup {0}, MaxBatch)

\* The unbilled amount of each order; order 1 is the zero-amount order.
UnbilledAmount(o) == o - 1

\* Item lines of every sales order.
LinesPerOrder == 2

VARIABLES
    now,                \* the host clock (new Date())
    queued,             \* custbody_service_queued_for_write_off per order, 0 = empty
    calls,              \* history: the accepted queue / unqueue calls per order
    closed,             \* isclosed flag of every item line of every order
    research,           \* research note and follow-up date per order
    nreq,               \* POST requests received so far
    params,             \* context.request.parameters of the request in hand
    pc,                 \* handler (position) the request is in
    soIdArray, i,       \* the bulk loop: parsed ids and 1-based loop index
    processedIds, failedIds, failureDetails, governanceStopped, details,
    remaining,          \* runtime.getCurrentScript().getRemainingUsage()
    wf,                 \* local variables of the CBSI workflow
    docs,               \* documents persisted by the host during this request
    ops,                \* host calls made for the current item: <<call, succeeded>>
    touched, rejected,  \* list positions with a host call / a host rejection
    responses,          \* what response.write() was given, in order
    transactionRows,    \* master list: the rows the detail query yields
    listPc,             \* master list / load-data request: position
    result,             \* master list: result of searchServiceTransactions
    pageIndex,          \* master list: index p of the page being fetched
    dupeCount,          \* master list: duplicates the de-duplication logged
    page,               \* master list: what buildPageHTML rendered
    loadData,           \* portal: the JSON handleLoadData wrote
    value, formatted,   \* formatCurrency: argument and returned text
    errorLogged,        \* log.error ran in the catch around a query
    selection,          \* portal page: ids of the checked .so-checkbox rows, in table order
    error, cleanMessage,\* getCleanErrorMessage: argument and returned text
    request             \* read paths: Suitelet, method and loadData of the request

portalVars == <<now, queued, calls, closed, research, nreq, params, pc, soIdArray, i, processedIds,
          failedIds, failureDetails, governanceStopped, details, remaining, wf,
          docs, ops, touched, rejected, responses>>
pageVars == <<selection, error, cleanMessage, request>>
readVars == <<transactionRows, listPc, result, pageIndex, dupeCount, page, loadData,
              value, formatted, errorLogged, pageVars>>
vars == <<portalVars, readVars>>

hostVars == <<queued, calls, closed, research>>
loopVars == <<soIdArray, i, processedIds, failedIds, failureDetails,
              governanceStopped, details, touched, rejected>>

\* -------------------------------------------------------------- responses
BaseResponse ==
    [success |-> FALSE, message |-> "", shape |-> "plain",
     processedIds |-> <<>>, failedIds |-> <<>>,
     failureDetails |-> [o \in Orders |-> ""],
     governanceStopped |-> FALSE, count |-> 0, details |-> <<>>,
     invoiceTranid |-> 0, jeTranid |-> 0, amount |-> 0]

\* Fault model: a failure response written without its message.
FailureSilent(msg) == BaseResponse

Failure(msg) == [BaseResponse EXCEPT !.message = msg]
Success(msg) == [BaseResponse EXCEPT !.success = TRUE, !.message = msg]

\* getCleanErrorMessage on the host errors above.
getCleanErrorMessage(e) ==
    IF e = "Address Validation Failed"
    THEN "Address validation error: Shipping address contains phone number."
    ELSE e

NoWorkflow ==
    [step |-> "idle",
     invoiceId |-> 0, invoiceTranid |-> 0, rawTotal |-> 0, invoiceTotal |-> 0,
     jeId |-> 0, jeTranid |-> 0, jeDebit |-> 0, jeCredit |-> 0, payment |-> 0,
     apply |-> <<>>, credit |-> <<>>,
     creditLineUpdated |-> FALSE, actualCreditAmount |-> 0,
     invoiceLineUpdated |-> FALSE, actualApplyAmount |-> 0,
     paymentId |-> 0]

PortalInit ==
    /\ now = 1
    /\ queued = [o \in Orders |-> IF o = 1 THEN 0 ELSE 1]
    /\ calls = [o \in Orders |-> <<>>]
    /\ closed = [o \in Orders |-> [l \in 1..LinesPerOrder |-> l = o]]
    /\ research = [o \in Orders |-> [note |-> "", followUp |-> <<>>]]
    /\ nreq = 0
    /\ params = [action |-> None, soId |-> NoId, selectedSOIds |-> <<>>,
                 bulkAction |-> None, note |-> "", followUpDate |-> <<>>]
    /\ pc = "idle"
    /\ soIdArray = <<>>
    /\ i = 1
    /\ processedIds = <<>>
    /\ failedIds = <<>>
    /\ failureDetails = [o \in Orders |-> ""]
    /\ governanceStopped = FALSE
    /\ details = <<>>
    /\ remaining = FullUsage
    /\ wf = NoWorkflow
    /\ docs = <<>>
    /\ ops = <<>>
    /\ touched = {}
    /\ rejected = {}
    /\ responses = <<>>

\* The result object searchServiceTransactions starts from.
EmptyResult ==
    [transactions |-> <<>>, isTruncated |-> FALSE, actualCount |-> 0,
     invoiceCount |-> 0, invoiceTotal |-> 0, creditCount |-> 0,
     creditTotal |-> 0, netTotal |-> 0]

\* Nothing rendered yet.  A summary card is a record count, an amount and
\* the amount's text; the table footer likewise.
NoCard == [count |-> 0, amount |-> 0, text |-> <<>>]
NoPage ==
    [rendered |-> FALSE, invoices |-> NoCard, credits |-> NoCard, net |-> NoCard,
     sectionCount |-> 0, rows |-> <<>>, hasTable |-> FALSE, footer |-> NoCard]

NoLoadData ==
    [written |-> FALSE, success |-> FALSE, message |-> "",
     summaryTotal |-> 0, summaryTotalLines |-> 0, summaryTotalAmount |-> 0,
     queuedTotal |-> 0, queuedTotalLines |-> 0, queuedTotalAmount |-> 0,
     tableBody |-> <<>>]

\* No read request in hand.
\* No read request in hand.
NoRequest == [suitelet |-> None, method |-> None, loadData |-> None]

ReadIdle ==
    /\ listPc = "idle"
    /\ result = EmptyResult
    /\ pageIndex = 0
    /\ dupeCount = 0
    /\ page = NoPage
    /\ loadData = NoLoadData
    /\ formatted = <<>>
    /\ errorLogged = FALSE
    /\ selection = <<>>
    /\ error = <<>>
    /\ cleanMessage = <<>>
    /\ request = NoRequest

Init ==
    /\ PortalInit
    /\ ReadIdle
    /\ transactionRows = <<>>
    /\ value = <<>>

\* ------------------------------------------------------------- dispatcher
\* The first occurrence of every element of a sequence.
RECURSIVE Distinct(_)
Distinct(s) ==
    IF s = <<>> THEN <<>>
    ELSE LET front == Distinct(SubSeq(s, 1, Len(s) - 1))
         IN IF \E k \in DOMAIN front : front[k] = s[Len(s)]
            THEN front ELSE Append(front, s[Len(s)])

\* Fault model: a parse that also drops the repeated ids of the selection.
ParseIdsDistinct(tokens) == Distinct(SelectSeq(tokens, LAMBDA t : t # 0))

\* selectedSOIds.split(',').filter(function(id) { return id.trim(); })
ParseIds(tokens) == SelectSeq(tokens, LAMBDA t : t # 0)

\* The handler handlePost hands the request to.
Route(p) ==
    IF p.action \in Actions /\ p.soId # NoId
    THEN CASE p.action = "close" -> "handleCloseSalesOrder"
           [] p.action = "auto-bill" -> "handleAutoBillSalesOrder"
           [] p.action = "cbsi-bill-je" -> "handleCBSIBillAndJE"
           [] p.action = "queue" -> "handleQueueSingleSO"
           [] p.action = "unqueue" -> "handleUnqueueSalesOrder"
           [] p.action = "add-note" -> "handleAddResearchNote"
    ELSE IF p.selectedSOIds = <<>>
    THEN "noSelection"
    ELSE LET bulkAction == IF p.bulkAction = None THEN "queue" ELSE p.bulkAction
         IN CASE bulkAction = "close" -> "handleBulkClose"
              [] bulkAction = "auto-bill" -> "handleBulkAutoBill"
              [] bulkAction = "cbsi-bill-je" -> "handleBulkCBSI"
              [] OTHER -> "bulkQueue"

\* The followUpDate parameter split at '-': each part a string of digits.
\* Absent, "2025-03-07", and a two-part "2025-03".
FollowUpParams ==
    {<<>>, <<<<2, 0, 2, 5>>, <<0, 3>>, <<0, 7>>>>, <<<<2, 0, 2, 5>>, <<0, 3>>>>}

\* The handlers that read or write a field of the sales order itself.
FieldHandlers ==
    {"noSelection", "handleQueueSingleSO", "handleUnqueueSalesOrder",
     "handleCloseSalesOrder", "handleAddResearchNote", "bulkQueue", "handleBulkClose"}

Requests ==
    {p \in [action : Actions \cup {None, Unknown},
            soId : Orders \cup {NoId},
            selectedSOIds : TokenLists,
            bulkAction : BulkActions \cup {None, Unknown},
            note : {"", "checked with vendor"},
            followUpDate : FollowUpParams] :
        \* parameters the routed handler never reads are left out
        /\ p.action # "add-note" => (p.note = "" /\ p.followUpDate = <<>>)
        /\ (p.action \in Actions /\ p.soId # NoId)
              => (p.selectedSOIds = <<>> /\ p.bulkAction = None)
        /\ p.bulkAction \in BulkActions => (p.action = None /\ p.soId = NoId)}

\* handlePost: a new request arrives with a fresh usage budget and is routed.
handlePost ==
    /\ pc = "idle"
    /\ UNCHANGED readVars
    /\ nreq < MaxRequests
    /\ \E p \in Requests :
        \* requests that only create documents neither read nor write an order
        \* field: they are explored from the initial host state
        /\ nreq > 0 => Route(p) \in FieldHandlers
        /\ params' = p
        /\ remaining' = FullUsage
        /\ pc' = Route(p)
        /\ soIdArray' = IF p.action \in Actions /\ p.soId # NoId
                        THEN <<>> ELSE ParseIds(p.selectedSOIds)
    /\ nreq' = nreq + 1
    /\ now' = now + 1
    /\ i' = 1
    /\ processedIds' = <<>>
    /\ failedIds' = <<>>
    /\ failureDetails' = [o \in Orders |-> ""]
    /\ governanceStopped' = FALSE
    /\ details' = <<>>
    /\ wf' = IF pc' = "handleCBSIBillAndJE"
             THEN [NoWorkflow EXCEPT !.step = "invoice"] ELSE NoWorkflow
    /\ docs' = <<>>
    /\ ops' = <<>>
    /\ touched' = {}
    /\ rejected' = {}
    /\ responses' = <<>>
    /\ UNCHANGED hostVars

\* The branch of handlePost that answers a request with nothing selected.
noSelection ==
    /\ pc = "noSelection"
    /\ UNCHANGED readVars
    /\ responses' = Append(responses, Failure("No Sales Orders selected. Please select at least one SO."))
    /\ pc' = "done"
    /\ UNCHANGED <<now, nreq, params, remaining, wf, docs, ops, hostVars, loopVars>>

\* ---------------------------------------------------- single-item handlers
\* record.submitFields of the queued timestamp: the host accepts or throws.
handleQueueSingleSO ==
    /\ pc = "handleQueueSingleSO"
    /\ UNCHANGED readVars
    /\ \E ok \in BOOLEAN :
        /\ ops' = Append(ops, <<"submitFields", ok>>)
        /\ IF ok
           THEN /\ queued' = [queued EXCEPT ![params.soId] = now]
                /\ calls' = [calls EXCEPT ![params.soId] = Append(@, "queue")]
                /\ responses' = Append(responses, Success("Sales Order queued for Bill & Write-Off processing."))
           ELSE /\ UNCHANGED <<queued, calls>>
                /\ responses' = Append(responses, Failure("Error queueing Sales Order"))
    /\ pc' = "done"
    /\ UNCHANGED <<now, closed, research, nreq, params, remaining, wf, docs, loopVars>>

\* Fault model: an unqueue that leaves the stored timestamp in place.
UnqueuedValueKept(old) == old

\* values: { custbody_service_queued_for_write_off: '' }
UnqueuedValue(old) == 0

handleUnqueueSalesOrder ==
    /\ pc = "handleUnqueueSalesOrder"
    /\ UNCHANGED readVars
    /\ \E ok \in BOOLEAN :
        /\ ops' = Append(ops, <<"submitFields", ok>>)
        /\ IF ok
           THEN /\ queued' = [queued EXCEPT ![params.soId] = UnqueuedValue(@)]
                /\ calls' = [calls EXCEPT ![params.soId] = Append(@, "unqueue")]
                /\ responses' = Append(responses, Success("Sales Order removed from queue."))
           ELSE /\ UNCHANGED <<queued, calls>>
                /\ responses' = Append(responses, Failure("Error unqueueing Sales Order"))
    /\ pc' = "done"
    /\ UNCHANGED <<now, closed, research, nreq, params, remaining, wf, docs, loopVars>>

\* Every line of the loaded record gets isclosed = true.
CloseFirstLine(lines) == [lines EXCEPT ![1] = TRUE]
CloseAllLines(lines) == [l \in DOMAIN lines |-> TRUE]

\* handleCloseSalesOrder: load, mark every line closed, save.
handleCloseSalesOrder ==
    /\ pc = "handleCloseSalesOrder"
    /\ UNCHANGED readVars
    /\ \E outcome \in {"ok", "load throws", "save throws"}, e \in HostErrors :
        CASE outcome = "ok" ->
               /\ ops' = ops \o <<<<"load", TRUE>>, <<"save", TRUE>>>>
               /\ closed' = [closed EXCEPT ![params.soId] = CloseAllLines(@)]
               /\ responses' = Append(responses, Success("Sales Order closed successfully."))
          [] outcome = "load throws" ->
               /\ ops' = Append(ops, <<"load", FALSE>>)
               /\ UNCHANGED closed
               /\ responses' = Append(responses,
                      [Failure("Error closing Sales Order") EXCEPT !.details = <<getCleanErrorMessage(e)>>])
          [] outcome = "save throws" ->
               /\ ops' = ops \o <<<<"load", TRUE>>, <<"save", FALSE>>>>
               /\ UNCHANGED closed
               /\ responses' = Append(responses,
                      [Failure("Error closing Sales Order") EXCEPT !.details = <<getCleanErrorMessage(e)>>])
    /\ pc' = "done"
    /\ UNCHANGED <<now, queued, calls, research, nreq, params, remaining, wf, docs, loopVars>>

\* Fault model: a document the handler removes again when its item fails.
DocRolledBack(type, from) == [type |-> type, from |-> from, deleted |-> TRUE]

\* A document as the host stores it.
Doc(type, from) == [type |-> type, from |-> from, deleted |-> FALSE]

\* The document number (tranid) the host gives the document with internal id n.
Tranid(n) == 100 + n

\* handleAutoBillSalesOrder: transform the order into an invoice and save it.
handleAutoBillSalesOrder ==
    /\ pc = "handleAutoBillSalesOrder"
    /\ UNCHANGED readVars
    /\ \E outcome \in {"ok", "transform throws", "save throws"}, e \in HostErrors :
        CASE outcome = "ok" ->
               /\ ops' = ops \o <<<<"transform invoice", TRUE>>, <<"save invoice", TRUE>>>>
               /\ docs' = Append(docs, Doc("invoice", params.soId))
               /\ responses' = Append(responses,
                      [Success("Invoice created successfully.") EXCEPT
                          !.shape = "autoBill",
                          !.details = <<[soId |-> params.soId, invoiceId |-> Len(docs) + 1]>>])
          [] outcome = "transform throws" ->
               /\ ops' = Append(ops, <<"transform invoice", FALSE>>)
               /\ UNCHANGED docs
               /\ responses' = Append(responses,
                      [Failure("Error creating invoice") EXCEPT !.details = <<getCleanErrorMessage(e)>>])
          [] outcome = "save throws" ->
               /\ ops' = ops \o <<<<"transform invoice", TRUE>>, <<"save invoice", FALSE>>>>
               /\ UNCHANGED docs
               /\ responses' = Append(responses,
                      [Failure("Error creating invoice") EXCEPT !.details = <<getCleanErrorMessage(e)>>])
    /\ pc' = "done"
    /\ UNCHANGED <<now, hostVars, nreq, params, remaining, wf, loopVars>>

\* parseInt(part, 10) of a string of digits.
RECURSIVE ParseInt(_)
ParseInt(digits) ==
    IF digits = <<>> THEN 0
    ELSE 10 * ParseInt(SubSeq(digits, 1, Len(digits) - 1)) + digits[Len(digits)]

\* Fault model: a conversion that writes the day before the month.
ConvertFollowUpDateDayFirst(dateParts) ==
    IF Len(dateParts) = 3
    THEN <<ParseInt(dateParts[3]), ParseInt(dateParts[2]), dateParts[1]>>
    ELSE <<>>

\* YYYY-MM-DD to M/D/YYYY: <<month, day, year digits>>; anything else is ''.
ConvertFollowUpDate(dateParts) ==
    IF Len(dateParts) = 3
    THEN <<ParseInt(dateParts[2]), ParseInt(dateParts[3]), dateParts[1]>>
    ELSE <<>>

\* handleAddResearchNote: one submitFields with the note and the follow-up date.
handleAddResearchNote ==
    /\ pc = "handleAddResearchNote"
    /\ UNCHANGED readVars
    /\ \E ok \in BOOLEAN :
        /\ ops' = Append(ops, <<"submitFields", ok>>)
        /\ IF ok
           THEN /\ research' = [research EXCEPT ![params.soId] =
                       [note |-> params.note,
                        followUp |-> ConvertFollowUpDate(params.followUpDate)]]
                /\ responses' = Append(responses,
                       Success(IF params.note # "" THEN "Research note saved."
                               ELSE "Research note cleared."))
           ELSE /\ UNCHANGED research
                /\ responses' = Append(responses, Failure("Error saving research note"))
    /\ pc' = "done"
    /\ UNCHANGED <<now, queued, calls, closed, nreq, params, remaining, wf, docs, loopVars>>

\* ------------------------------------------------------------ bulk handlers
\* Fault model: a guard that never finds the budget insufficient.
GovernanceNeverInsufficient(remainingUsage, threshold) == FALSE

\* The governance guard: if (remainingUsage < GOVERNANCE_THRESHOLD) break.
GovernanceInsufficient(remainingUsage, threshold) == remainingUsage < threshold

\* Fault model: a catch block that leaves the loop.
AfterCatchBreak(idx) == Len(soIdArray) + 1

\* A catch block inside a bulk loop ends the iteration: the loop's i++ runs.
AfterCatch(idx) == idx + 1

\* The queue loop inside handlePost (the default bulk action): one iteration.
\* It performs no governance check.
bulkQueueItem ==
    /\ pc = "bulkQueue"
    /\ UNCHANGED readVars
    /\ i <= Len(soIdArray)
    /\ \E ok \in BOOLEAN :
        /\ ops' = <<<<"submitFields", ok>>>>
        /\ IF ok
           THEN /\ queued' = [queued EXCEPT ![soIdArray[i]] = now]
                /\ calls' = [calls EXCEPT ![soIdArray[i]] = Append(@, "queue")]
                /\ processedIds' = Append(processedIds, soIdArray[i])
                /\ i' = i + 1
                /\ UNCHANGED <<failedIds, rejected>>
           ELSE /\ failedIds' = Append(failedIds, soIdArray[i])
                /\ rejected' = rejected \cup {i}
                /\ i' = AfterCatch(i)
                /\ UNCHANGED <<queued, calls, processedIds>>
    /\ touched' = touched \cup {i}
    \* the submitFields call is charged to the budget, which nothing reads here
    /\ \E remainingUsage \in UsageAfter(remaining) : remaining' = remainingUsage
    /\ UNCHANGED <<now, closed, research, nreq, params, pc, soIdArray, failureDetails,
                   governanceStopped, details, wf, docs, responses>>

\* After the queue loop: the response carries queuedIds, failedIds and count.
bulkQueueRespond ==
    /\ pc = "bulkQueue"
    /\ UNCHANGED readVars
    /\ i > Len(soIdArray)
    /\ responses' = Append(responses,
           [Success("Sales Order(s) queued for write-off processing.") EXCEPT
               !.shape = "bulkQueue",
               !.processedIds = processedIds,
               !.failedIds = failedIds,
               !.count = Len(processedIds)])
    /\ pc' = "done"
    /\ UNCHANGED <<now, nreq, params, remaining, wf, docs, ops, hostVars, loopVars>>

\* Fault model: a bulk response that reports failure when no item was processed.
BulkResponseStrict(msg) ==
    [Success(msg) EXCEPT
        !.success = (processedIds # <<>>),
        !.shape = "bulk",
        !.processedIds = processedIds,
        !.failedIds = failedIds,
        !.failureDetails = failureDetails,
        !.details = details,
        !.governanceStopped = governanceStopped,
        !.count = Len(processedIds)]

\* The response every bulk handler with a governance guard writes.
BulkResponse(msg) ==
    [Success(msg) EXCEPT
        !.shape = "bulk",
        !.processedIds = processedIds,
        !.failedIds = failedIds,
        !.failureDetails = failureDetails,
        !.details = details,
        !.governanceStopped = governanceStopped,
        !.count = Len(processedIds)]

\* handleBulkClose: one iteration of its loop.
handleBulkCloseItem ==
    /\ pc = "handleBulkClose"
    /\ UNCHANGED readVars
    /\ i <= Len(soIdArray)
    /\ ~governanceStopped
    /\ \E remainingUsage \in UsageAfter(remaining) : remaining' = remainingUsage
    /\ IF GovernanceInsufficient(remaining', GOVERNANCE_THRESHOLD)
       THEN /\ governanceStopped' = TRUE
            /\ UNCHANGED <<closed, processedIds, failedIds, failureDetails,
                           ops, touched, rejected, i>>
       ELSE /\ \E outcome \in {"ok", "load throws", "save throws"}, e \in HostErrors :
                CASE outcome = "ok" ->
                       /\ ops' = <<<<"load", TRUE>>, <<"save", TRUE>>>>
                       /\ closed' = [closed EXCEPT ![soIdArray[i]] = CloseAllLines(@)]
                       /\ processedIds' = Append(processedIds, soIdArray[i])
                       /\ i' = i + 1
                       /\ UNCHANGED <<failedIds, failureDetails, rejected>>
                  [] OTHER ->
                       /\ ops' = IF outcome = "load throws"
                                 THEN <<<<"load", FALSE>>>>
                                 ELSE <<<<"load", TRUE>>, <<"save", FALSE>>>>
                       /\ failedIds' = Append(failedIds, soIdArray[i])
                       /\ failureDetails' =
                              [failureDetails EXCEPT ![soIdArray[i]] = getCleanErrorMessage(e)]
                       /\ rejected' = rejected \cup {i}
                       /\ i' = AfterCatch(i)
                       /\ UNCHANGED <<closed, processedIds>>
            /\ touched' = touched \cup {i}
            /\ UNCHANGED governanceStopped
    /\ UNCHANGED <<now, queued, calls, research, nreq, params, pc, soIdArray, details,
                   wf, docs, responses>>

handleBulkCloseRespond ==
    /\ pc = "handleBulkClose"
    /\ UNCHANGED readVars
    /\ (i > Len(soIdArray) \/ governanceStopped)
    /\ responses' = Append(responses, BulkResponse("Sales Order(s) closed."))
    /\ pc' = "done"
    /\ UNCHANGED <<now, nreq, params, remaining, wf, docs, ops, hostVars, loopVars>>

\* handleBulkAutoBill: one iteration of its loop.
handleBulkAutoBillItem ==
    /\ pc = "handleBulkAutoBill"
    /\ UNCHANGED readVars
    /\ i <= Len(soIdArray)
    /\ ~governanceStopped
    /\ \E remainingUsage \in UsageAfter(remaining) : remaining' = remainingUsage
    /\ IF GovernanceInsufficient(remaining', GOVERNANCE_THRESHOLD)
       THEN /\ governanceStopped' = TRUE
            /\ UNCHANGED <<docs, processedIds, failedIds, details,
                           ops, touched, rejected, i>>
       ELSE /\ \E outcome \in {"ok", "transform throws", "save throws"} :
                CASE outcome = "ok" ->
                       /\ ops' = <<<<"transform invoice", TRUE>>, <<"save invoice", TRUE>>>>
                       /\ docs' = Append(docs, Doc("invoice", soIdArray[i]))
                       /\ processedIds' = Append(processedIds, soIdArray[i])
                       /\ details' = Append(details,
                              [soId |-> soIdArray[i], invoiceId |-> Len(docs) + 1])
                       /\ i' = i + 1
                       /\ UNCHANGED <<failedIds, rejected>>
                  [] OTHER ->
                       /\ ops' = IF outcome = "transform throws"
                                 THEN <<<<"transform invoice", FALSE>>>>
                                 ELSE <<<<"transform invoice", TRUE>>, <<"save invoice", FALSE>>>>
                       /\ failedIds' = Append(failedIds, soIdArray[i])
                       /\ rejected' = rejected \cup {i}
                       /\ i' = AfterCatch(i)
                       /\ UNCHANGED <<docs, processedIds, details>>
            /\ touched' = touched \cup {i}
            /\ UNCHANGED governanceStopped
    /\ UNCHANGED <<now, hostVars, nreq, params, pc, soIdArray, failureDetails, wf,
                   responses>>

handleBulkAutoBillRespond ==
    /\ pc = "handleBulkAutoBill"
    /\ UNCHANGED readVars
    /\ (i > Len(soIdArray) \/ governanceStopped)
    /\ responses' = Append(responses, BulkResponse("Invoice(s) created."))
    /\ pc' = "done"
    /\ UNCHANGED <<now, nreq, params, remaining, wf, docs, ops, hostVars, loopVars>>

\* ------------------------------------------------- CBSI Bill-and-JE workflow
\* handleCBSIBillAndJE runs it once; handleBulkCBSI runs its inline copy once
\* per list item.  wf.step is the position inside the workflow.
Single == pc = "handleCBSIBillAndJE"
CurrentSoId == IF Single THEN params.soId ELSE soIdArray[i]

Abs(x) == IF x < 0 THEN -x ELSE x

\* What the host may store as the total of the saved invoice.
RawTotals == {-1, 0, 1}
Amounts == 0..MaxAmount

\* Sublists of the payment the host builds on transform.
\* auto: the host pre-selected the line when it built the payment.
ApplyLines ==
    {[doc |-> d, auto |-> a, apply |-> a, amount |-> IF a THEN MaxAmount ELSE 0] :
        d \in {"invoice", "other"}, a \in BOOLEAN}
\* doc and refnum as they compare with jeId: the journal entry's own line, a
\* line of another document whose reference number reads like jeId, and a
\* line of a third document.
CreditLines ==
    {[doc |-> "je", refnum |-> "other", apply |-> FALSE, amount |-> 0],
     [doc |-> "other", refnum |-> "je", apply |-> FALSE, amount |-> 0],
     [doc |-> "third", refnum |-> "other", apply |-> FALSE, amount |-> 0]}

\* A document is listed at most once in a sublist.
DistinctDocs(l) == \A a, b \in DOMAIN l : a # b => l[a].doc # l[b].doc
ApplyLineLists == {l \in SeqsUpTo(ApplyLines, MaxLines) : DistinctDocs(l)}
CreditLineLists == {l \in SeqsUpTo(CreditLines, MaxLines) : DistinctDocs(l)}

\* A setSublistValue pair either goes through or throws and leaves the line.
SetOutcomes == {"ok", "throws"}

\* The catch block of the handler the workflow runs in. The locals of a
\* bulk iteration are dead once the iteration ends.
CBSICatch(w, msg) ==
    /\ wf' = IF Single THEN [w EXCEPT !.step = "idle"] ELSE NoWorkflow
    /\ IF Single
       THEN /\ responses' = Append(responses,
                   [Failure("Error in CBSI Bill and JE") EXCEPT !.details = <<msg>>])
            /\ pc' = "done"
            /\ UNCHANGED <<i, failedIds, rejected>>
       ELSE /\ failedIds' = Append(failedIds, soIdArray[i])
            /\ rejected' = rejected \cup {i}
            /\ i' = AfterCatch(i)
            /\ UNCHANGED <<responses, pc>>
    /\ UNCHANGED <<processedIds, details>>

CBSISkipJournalEntry(w, step) ==
    /\ wf' = [w EXCEPT !.step = IF step = "je" THEN "payment" ELSE step]
    /\ UNCHANGED <<responses, pc, i, failedIds, rejected, processedIds, details>>

CBSIContinue(w, step) ==
    /\ wf' = [w EXCEPT !.step = step]
    /\ UNCHANGED <<responses, pc, i, failedIds, rejected, processedIds, details>>

CBSIFrame ==
    /\ touched' = IF Single THEN touched ELSE touched \cup {i}
    /\ UNCHANGED <<now, hostVars, nreq, params, soIdArray, failureDetails,
                   governanceStopped>>

\* The governance check at the head of handleBulkCBSI's loop.
handleBulkCBSICheck ==
    /\ pc = "handleBulkCBSI"
    /\ UNCHANGED readVars
    /\ wf.step = "idle"
    /\ i <= Len(soIdArray)
    /\ ~governanceStopped
    /\ \E remainingUsage \in UsageAfter(remaining) : remaining' = remainingUsage
    /\ IF GovernanceInsufficient(remaining', GOVERNANCE_THRESHOLD_CBSI)
       THEN /\ governanceStopped' = TRUE
            /\ UNCHANGED <<wf, ops>>
       ELSE /\ wf' = [NoWorkflow EXCEPT !.step = "invoice"]
            /\ ops' = <<>>
            /\ UNCHANGED governanceStopped
    /\ UNCHANGED <<now, hostVars, nreq, params, pc, soIdArray, i, processedIds,
                   failedIds, failureDetails, details, docs, touched,
                   rejected, responses>>

\* Math.abs(parseFloat(invoiceRecord.getValue('total') || 0)) of the reloaded invoice.
InvoiceTotalSigned(total) == total
InvoiceTotal(total) == Abs(total)

\* STEP 1: transform the order into an invoice, set entity 335, save, reload.
cbsiCreateInvoice ==
    /\ pc \in {"handleCBSIBillAndJE", "handleBulkCBSI"}
    /\ UNCHANGED readVars
    /\ wf.step = "invoice"
    /\ \E outcome \in {"ok", "transform throws", "save throws", "load throws"},
          e \in HostErrors, raw \in RawTotals :
        LET id == Len(docs) + 1
            saved == Doc("invoice", CurrentSoId)
        IN CASE outcome = "transform throws" ->
                  /\ ops' = Append(ops, <<"transform invoice", FALSE>>)
                  /\ UNCHANGED docs
                  /\ CBSICatch(wf, getCleanErrorMessage(e))
             [] outcome = "save throws" ->
                  /\ ops' = ops \o <<<<"transform invoice", TRUE>>, <<"save invoice", FALSE>>>>
                  /\ UNCHANGED docs
                  /\ CBSICatch(wf, getCleanErrorMessage(e))
             [] outcome = "load throws" ->
                  /\ ops' = ops \o <<<<"transform invoice", TRUE>>, <<"save invoice", TRUE>>,
                                    <<"load invoice", FALSE>>>>
                  /\ docs' = Append(docs, saved)
                  /\ CBSICatch([wf EXCEPT !.invoiceId = id], getCleanErrorMessage(e))
             [] outcome = "ok" ->
                  /\ ops' = ops \o <<<<"transform invoice", TRUE>>, <<"save invoice", TRUE>>,
                                    <<"load invoice", TRUE>>>>
                  /\ docs' = Append(docs, saved)
                  /\ CBSIContinue([wf EXCEPT !.invoiceId = id,
                                             !.invoiceTranid = Tranid(id),
                                             !.rawTotal = raw,
                                             !.invoiceTotal = InvoiceTotal(raw)], "je")
    /\ UNCHANGED remaining
    /\ CBSIFrame

\* The amounts written to the debit of line 0 and the credit of line 1.
JournalDebit(w) == w.invoiceTotal
JournalCredit(w) == w.invoiceTotal

\* STEP 2: create the two-line journal entry, save, reload.
cbsiCreateJournalEntry ==
    /\ pc \in {"handleCBSIBillAndJE", "handleBulkCBSI"}
    /\ UNCHANGED readVars
    /\ wf.step = "je"
    /\ \E outcome \in {"ok", "save throws", "load throws"}, e \in HostErrors :
        LET id == Len(docs) + 1
            saved == Doc("journalentry", wf.invoiceId)
            w == [wf EXCEPT !.jeId = id, !.jeDebit = JournalDebit(wf),
                            !.jeCredit = JournalCredit(wf)]
        IN CASE outcome = "save throws" ->
                  /\ ops' = Append(ops, <<"save journal entry", FALSE>>)
                  /\ UNCHANGED docs
                  /\ CBSICatch(wf, getCleanErrorMessage(e))
             [] outcome = "load throws" ->
                  /\ ops' = ops \o <<<<"save journal entry", TRUE>>,
                                    <<"load journal entry", FALSE>>>>
                  /\ docs' = Append(docs, saved)
                  /\ CBSICatch(w, getCleanErrorMessage(e))
             [] outcome = "ok" ->
                  /\ ops' = ops \o <<<<"save journal entry", TRUE>>,
                                    <<"load journal entry", TRUE>>>>
                  /\ docs' = Append(docs, saved)
                  /\ CBSIContinue([w EXCEPT !.jeTranid = Tranid(id)], "payment")
    /\ UNCHANGED remaining
    /\ CBSIFrame

\* STEP 4 of handleCBSIBillAndJE on one apply line: only a line that reads
\* as applied is cleared; a throw is logged and the loop goes on.
SingleClearLine(line, outcome) ==
    IF ~line.apply THEN line
    ELSE IF outcome = "ok" THEN [line EXCEPT !.apply = FALSE, !.amount = 0]
    ELSE line

\* The same in handleBulkCBSI: every line is written, a throw is ignored.
BulkClearLine(line, outcome) ==
    IF outcome = "ok" THEN [line EXCEPT !.apply = FALSE, !.amount = 0]
    ELSE line

\* STEP 3 and 4: transform the invoice into a customer payment, set its
\* fields, clear the auto-selected apply lines.
cbsiTransformPayment ==
    /\ pc \in {"handleCBSIBillAndJE", "handleBulkCBSI"}
    /\ UNCHANGED readVars
    /\ wf.step = "payment"
    /\ \E outcome \in {"ok", "transform throws"}, e \in HostErrors,
          lines \in ApplyLineLists, clr \in [1..MaxLines -> SetOutcomes] :
        CASE outcome = "transform throws" ->
               /\ ops' = Append(ops, <<"transform payment", FALSE>>)
               /\ CBSICatch(wf, getCleanErrorMessage(e))
          [] outcome = "ok" ->
               /\ ops' = Append(ops, <<"transform payment", TRUE>>)
               /\ CBSIContinue(
                      [wf EXCEPT !.payment = wf.invoiceTotal,
                                 !.apply = [j \in DOMAIN lines |->
                                               IF Single THEN SingleClearLine(lines[j], clr[j])
                                               ELSE BulkClearLine(lines[j], clr[j])]],
                      "credit")
    /\ UNCHANGED <<remaining, docs>>
    /\ CBSIFrame

\* The scan with break: the first line whose test succeeds, 0 when none does.
\* matches[c] is the outcome of the test on line c.
FirstMatch(matches) ==
    IF \E c \in DOMAIN matches : matches[c]
    THEN CHOOSE c \in DOMAIN matches :
            /\ matches[c]
            /\ \A b \in 1..(c - 1) : ~matches[b]
    ELSE 0

\* if (creditDocId == jeId || creditRefNum == jeId)
SingleCreditMatches(line) == line.doc = "je" \/ line.refnum = "je"
\* if (creditDocId == jeId)
BulkCreditMatches(line) == line.doc = "je"
\* if (docId == invoiceId)
ApplyMatches(line) == line.doc = "invoice"

\* setSublistValue(apply, true); setSublistValue(amount, invoiceTotal): the
\* host keeps amount a for the line.
SelectLine(line, outcome, a) ==
    IF outcome = "ok" THEN [line EXCEPT !.apply = TRUE, !.amount = a]
    ELSE line

\* STEP 5: find the credit line of the journal entry and select it.
cbsiSelectCredit ==
    /\ pc \in {"handleCBSIBillAndJE", "handleBulkCBSI"}
    /\ UNCHANGED readVars
    /\ wf.step = "credit"
    /\ \E lines \in CreditLineLists, a \in Amounts, e \in HostErrors,
          outcome \in SetOutcomes :
        LET c == FirstMatch([k \in DOMAIN lines |->
                                IF Single THEN SingleCreditMatches(lines[k])
                                ELSE BulkCreditMatches(lines[k])])
            selected == [lines EXCEPT ![c] = SelectLine(@, outcome, a)]
        IN IF c = 0
           THEN CBSIContinue([wf EXCEPT !.credit = lines], "apply")
           ELSE IF Single
           THEN CBSIContinue(
                    [wf EXCEPT !.credit = selected,
                               !.creditLineUpdated = (outcome = "ok"),
                               !.actualCreditAmount = IF outcome = "ok" THEN a ELSE 0],
                    "apply")
           ELSE IF outcome = "ok"
           THEN CBSIContinue([wf EXCEPT !.credit = selected], "apply")
           ELSE CBSICatch([wf EXCEPT !.credit = selected], getCleanErrorMessage(e))
    /\ UNCHANGED <<remaining, docs, ops>>
    /\ CBSIFrame

\* STEP 6: find the apply line of the invoice and select it.
cbsiSelectInvoice ==
    /\ pc \in {"handleCBSIBillAndJE", "handleBulkCBSI"}
    /\ UNCHANGED readVars
    /\ wf.step = "apply"
    /\ \E a \in Amounts, e \in HostErrors,
          outcome \in SetOutcomes :
        LET j == FirstMatch([k \in DOMAIN wf.apply |-> ApplyMatches(wf.apply[k])])
            selected == [wf.apply EXCEPT ![j] = SelectLine(@, outcome, a)]
        IN IF j = 0
           THEN CBSIContinue(wf, "save")
           ELSE IF Single
           THEN CBSIContinue(
                    [wf EXCEPT !.apply = selected,
                               !.invoiceLineUpdated = (outcome = "ok"),
                               !.actualApplyAmount = IF outcome = "ok" THEN a ELSE 0],
                    "save")
           ELSE IF outcome = "ok"
           THEN CBSIContinue([wf EXCEPT !.apply = selected], "save")
           ELSE CBSICatch([wf EXCEPT !.apply = selected], getCleanErrorMessage(e))
    /\ UNCHANGED <<remaining, docs, ops>>
    /\ CBSIFrame

\* Fault model: STEP 7 without the amountsMatch test.
ValidationErrorIgnoringAmounts(w) ==
    IF ~w.invoiceLineUpdated
    THEN "VALIDATION FAILED: Could not select target invoice"
    ELSE IF ~w.creditLineUpdated
    THEN "VALIDATION FAILED: Could not select credit transaction (JE)"
    ELSE IF Abs(w.actualApplyAmount - w.actualCreditAmount) > NET_EFFECT_TOLERANCE
    THEN "VALIDATION FAILED: Net effect is not zero"
    ELSE ""

\* STEP 7 of handleCBSIBillAndJE: the error it throws, "" when it throws none.
ValidationError(w) ==
    LET netEffect == w.actualApplyAmount - w.actualCreditAmount
        amountsMatch == /\ w.actualApplyAmount = w.actualCreditAmount
                        /\ w.actualApplyAmount = w.invoiceTotal
    IN IF ~w.invoiceLineUpdated
       THEN "VALIDATION FAILED: Could not select target invoice"
       ELSE IF ~w.creditLineUpdated
       THEN "VALIDATION FAILED: Could not select credit transaction (JE)"
       ELSE IF ~amountsMatch
       THEN "VALIDATION FAILED: Amounts do not match."
       ELSE IF Abs(netEffect) > NET_EFFECT_TOLERANCE
       THEN "VALIDATION FAILED: Net effect is not zero"
       ELSE ""

\* handleBulkCBSI goes from selecting the lines straight to the save.
BulkValidationError(w) == ""

\* Fault model: a rejected delete reaches the handler's catch block.
DeleteOutcomeFatal(deleted) == IF deleted THEN "completed" ELSE "caught"

\* STEP 9: record.delete of the saved payment sits in a try/catch of its own
\* that only logs: the workflow completes whether the delete went through.
DeleteOutcome(deleted) == "completed"

\* STEP 7 to 9: validate, save the payment, delete it, report the outcome.
cbsiSavePayment ==
    /\ pc \in {"handleCBSIBillAndJE", "handleBulkCBSI"}
    /\ UNCHANGED readVars
    /\ wf.step = "save"
    /\ LET invalid == IF Single THEN ValidationError(wf) ELSE BulkValidationError(wf)
           id == Len(docs) + 1
       IN IF invalid # ""
          THEN /\ CBSICatch(wf, getCleanErrorMessage(invalid))
               /\ UNCHANGED <<docs, ops>>
          ELSE \E outcome \in {"ok", "save throws", "delete throws"}, e \in HostErrors :
                 IF outcome = "save throws"
                 THEN /\ ops' = Append(ops, <<"save payment", FALSE>>)
                      /\ UNCHANGED docs
                      /\ CBSICatch(wf, getCleanErrorMessage(e))
                 ELSE IF DeleteOutcome(outcome = "ok") # "completed"
                 THEN /\ ops' = ops \o <<<<"save payment", TRUE>>,
                                        <<"delete payment", outcome = "ok">>>>
                      /\ docs' = Append(docs,
                             [Doc("customerpayment", wf.invoiceId)
                                 EXCEPT !.deleted = (outcome = "ok")])
                      /\ CBSICatch(wf, getCleanErrorMessage(e))
                 ELSE /\ ops' = ops \o <<<<"save payment", TRUE>>,
                                        <<"delete payment", outcome = "ok">>>>
                      /\ docs' = Append(docs,
                             [Doc("customerpayment", wf.invoiceId)
                                 EXCEPT !.deleted = (outcome = "ok")])
                      /\ wf' = IF Single THEN [wf EXCEPT !.paymentId = id, !.step = "idle"]
                                ELSE NoWorkflow
                      /\ IF Single
                         THEN /\ responses' = Append(responses,
                                     [Success("CBSI Bill and JE completed successfully.") EXCEPT
                                         !.shape = "cbsi",
                                         !.invoiceTranid = wf.invoiceTranid,
                                         !.jeTranid = wf.jeTranid,
                                         !.amount = wf.invoiceTotal])
                              /\ pc' = "done"
                              /\ UNCHANGED <<i, processedIds, details>>
                         ELSE /\ processedIds' = Append(processedIds, soIdArray[i])
                              /\ details' = Append(details,
                                     [soId |-> soIdArray[i],
                                      invoiceTranid |-> wf.invoiceTranid,
                                      jeTranid |-> wf.jeTranid,
                                      amount |-> wf.invoiceTotal])
                              /\ i' = i + 1
                              /\ UNCHANGED <<responses, pc>>
                      /\ UNCHANGED <<failedIds, rejected>>
    /\ UNCHANGED remaining
    /\ CBSIFrame

handleBulkCBSIRespond ==
    /\ pc = "handleBulkCBSI"
    /\ UNCHANGED readVars
    /\ wf.step = "idle"
    /\ (i > Len(soIdArray) \/ governanceStopped)
    /\ responses' = Append(responses, BulkResponse("CBSI transactions completed."))
    /\ pc' = "done"
    /\ UNCHANGED <<now, nreq, params, remaining, wf, docs, ops, hostVars, loopVars>>

\* onRequest returns: the invocation's locals are gone, the host records stay.
onRequestReturns ==
    /\ pc = "done"
    /\ UNCHANGED readVars
    /\ pc' = "idle"
    /\ params' = [action |-> None, soId |-> NoId, selectedSOIds |-> <<>>,
                  bulkAction |-> None, note |-> "", followUpDate |-> <<>>]
    /\ remaining' = FullUsage
    /\ soIdArray' = <<>>
    /\ i' = 1
    /\ processedIds' = <<>>
    /\ failedIds' = <<>>
    /\ failureDetails' = [o \in Orders |-> ""]
    /\ governanceStopped' = FALSE
    /\ details' = <<>>
    /\ wf' = NoWorkflow
    /\ docs' = <<>>
    /\ ops' = <<>>
    /\ touched' = {}
    /\ rejected' = {}
    /\ responses' = <<>>
    /\ UNCHANGED <<now, nreq, hostVars>>

Next ==
    \/ handlePost
    \/ onRequestReturns
    \/ noSelection
    \/ handleQueueSingleSO
    \/ handleUnqueueSalesOrder
    \/ handleCloseSalesOrder
    \/ handleAutoBillSalesOrder
    \/ handleAddResearchNote
    \/ bulkQueueItem
    \/ bulkQueueRespond
    \/ handleBulkCloseItem
    \/ handleBulkCloseRespond
    \/ handleBulkAutoBillItem
    \/ handleBulkAutoBillRespond
    \/ handleBulkCBSICheck
    \/ cbsiCreateInvoice
    \/ cbsiCreateJournalEntry
    \/ cbsiTransformPayment
    \/ cbsiSelectCredit
    \/ cbsiSelectInvoice
    \/ cbsiSavePayment
    \/ handleBulkCBSIRespond

Spec == Init /\ [][Next]_vars

\* ============================================================ master list
\* Service Department A/R Transactions (service_dept_2024_writeoff_master_list):
\* a GET runs the count query, the paged detail query, fetches every page,
\* removes duplicate ids and renders the summary cards and the table.
MaxRows == 3          \* rows the detail query yields
MaxIds == 2           \* distinct transaction ids among them
PageSize == 2         \* rows per page (the source asks for pages of 1000)

TransactionIds == 1..MaxIds
Types == {"CustInvc", "CustCred"}

\* foreignamountunpaid / foreignpaymentamountunused in cents; <<>> is NULL.
OpenAmounts == {<<>>, <<0>>, <<123450>>, <<100000000>>}

\* amount_remaining as the CASE of the detail query computes it.
AmountRemaining(type, open) ==
    IF open = <<>> THEN <<>>
    ELSE IF type = "CustInvc" THEN open ELSE <<-1 * open[1]>>

\* One mapped result; line is the joined line it came from (its position).
Row(id, type, open, line) ==
    [id |-> id, type |-> type, open |-> open, line |-> line,
     amount_remaining |-> AmountRemaining(type, open)]

\* What the detail query can yield: the join may repeat a transaction, and
\* every repetition carries the same transaction's columns.
RowSets ==
    {[k \in 1..Len(ids) |-> Row(ids[k], db[ids[k]][1], db[ids[k]][2], k)] :
        ids \in SeqsUpTo(TransactionIds, MaxRows),
        db \in [TransactionIds -> Types \X OpenAmounts]}

\* parseFloat(x) || 0 and parseInt(x) || 0 on a column value.
ParseFloatOr0(x) == IF x = <<>> THEN 0 ELSE x[1]

RECURSIVE Sum(_)
Sum(s) == IF s = <<>> THEN 0 ELSE Head(s) + Sum(Tail(s))

\* The one row of the count query, after parseInt / parseFloat: aggregates
\* over the same joined rows (SUM skips NULL, an empty SUM parses to 0).
CountResults(rows) ==
    LET invoices == SelectSeq(rows, LAMBDA r : r.type = "CustInvc")
        creditMemos == SelectSeq(rows, LAMBDA r : r.type = "CustCred")
        open(rs) == [k \in 1..Len(rs) |-> ParseFloatOr0(rs[k].open)]
    IN [actualCount |-> Cardinality({rows[k].id : k \in 1..Len(rows)}),
        invoiceCount |-> Len(invoices),
        invoiceTotal |-> Sum(open(invoices)),
        creditCount |-> Len(creditMemos),
        creditTotal |-> Sum(open(creditMemos)),
        netTotal |-> Sum(open(invoices)) - Sum(open(creditMemos))]

\* pagedData.pageRanges.length and the rows of page p (0-based).
PageCount(rows) == (Len(rows) + PageSize - 1) \div PageSize
PageRows(rows, n) ==
    SubSeq(rows, n * PageSize + 1,
           IF (n + 1) * PageSize < Len(rows) THEN (n + 1) * PageSize ELSE Len(rows))

\* The de-duplication loop: deduped and dupeCount, given seenIds.
DedupedNothing(rows, seenIds) == rows

RECURSIVE Deduped(_, _)
Deduped(rows, seenIds) ==
    IF rows = <<>> THEN <<>>
    ELSE IF Head(rows).id \notin seenIds
         THEN <<Head(rows)>> \o Deduped(Tail(rows), seenIds \cup {Head(rows).id})
         ELSE Deduped(Tail(rows), seenIds)

RECURSIVE DupeCount(_, _)
DupeCount(rows, seenIds) ==
    IF rows = <<>> THEN 0
    ELSE IF Head(rows).id \notin seenIds
         THEN DupeCount(Tail(rows), seenIds \cup {Head(rows).id})
         ELSE 1 + DupeCount(Tail(rows), seenIds)

\* ---------------------------------------------------------- formatCurrency
Digit(d) == <<"0", "1", "2", "3", "4", "5", "6", "7", "8", "9">>[d + 1]
IsDigit(c) == c \in {"0", "1", "2", "3", "4", "5", "6", "7", "8", "9"}

RECURSIVE IntDigits(_)
IntDigits(n) ==
    IF n < 10 THEN <<Digit(n)>> ELSE Append(IntDigits(n \div 10), Digit(n % 10))

\* Math.abs(value).toFixed(2) of an amount in cents.
ToFixed2(cents) ==
    IntDigits(cents \div 100) \o <<".">>
        \o <<Digit((cents % 100) \div 10), Digit(cents % 10)>>

\* The lookahead (?=(\d{3})+\.) at position k of s.
GroupFollows(s, k) ==
    \E m \in 1..Len(s) :
        /\ k + 3 * m + 1 <= Len(s)
        /\ \A j \in (k + 1)..(k + 3 * m) : IsDigit(s[j])
        /\ s[k + 3 * m + 1] = "."

\* replace(/\d(?=(\d{3})+\.)/g, '$&,') from position k on.
RECURSIVE ReplaceFrom(_, _)
ReplaceFrom(s, k) ==
    IF k > Len(s) THEN <<>>
    ELSE (IF IsDigit(s[k]) /\ GroupFollows(s, k) THEN <<s[k], ",">> ELSE <<s[k]>>)
            \o ReplaceFrom(s, k + 1)

PrefixUnsigned(v) == <<"$">>
Prefix(v) == IF v < 0 THEN <<"-", "$">> ELSE <<"$">>

\* formatCurrency(value); <<>> is null / undefined, <<n>> the number n cents.
formatCurrency(v) ==
    IF v = <<>> THEN <<"-">>
    ELSE Prefix(v[1]) \o ReplaceFrom(ToFixed2(Abs(v[1])), 1)

\* ------------------------------------------------------------- the request
\* A summary card / the table footer: count, amount, formatted amount.
Card(count, amount) ==
    [count |-> count, amount |-> amount, text |-> formatCurrency(<<amount>>)]

\* onRequest of the master list: GET and every other method call handleGet.
ListRoute(method) == "handleGet"

listOnRequest ==
    /\ listPc = "idle"
    /\ \E method \in {"GET", "POST"} :
        /\ request' = [suitelet |-> "master list", method |-> method, loadData |-> None]
        /\ ListRoute(method) = "handleGet"
    /\ listPc' = "count"
    /\ result' = EmptyResult
    /\ UNCHANGED <<portalVars, selection, error, cleanMessage, transactionRows,
                   pageIndex, dupeCount, page, loadData, value, formatted,
                   errorLogged>>

\* query.runSuiteQL(countSql): the totals are stored, or the catch is entered.
runCountQuery ==
    /\ listPc = "count"
    /\ \E ok \in BOOLEAN :
        IF ok
        THEN /\ LET counts == CountResults(transactionRows)
                IN result' = [result EXCEPT
                                !.actualCount = counts.actualCount,
                                !.invoiceCount = counts.invoiceCount,
                                !.invoiceTotal = counts.invoiceTotal,
                                !.creditCount = counts.creditCount,
                                !.creditTotal = counts.creditTotal,
                                !.netTotal = counts.netTotal]
             /\ listPc' = "paged"
             /\ UNCHANGED errorLogged
        ELSE /\ listPc' = "returned"
             /\ errorLogged' = TRUE
             /\ UNCHANGED result
    /\ UNCHANGED <<portalVars, pageVars, transactionRows, pageIndex, dupeCount, page,
                   loadData, value, formatted>>

\* query.runSuiteQLPaged(sql).
runSuiteQLPaged ==
    /\ listPc = "paged"
    /\ \E ok \in BOOLEAN :
        IF ok
        THEN /\ listPc' = "fetch"
             /\ pageIndex' = 0
             /\ UNCHANGED errorLogged
        ELSE /\ listPc' = "returned"
             /\ errorLogged' = TRUE
             /\ UNCHANGED pageIndex
    /\ UNCHANGED <<portalVars, pageVars, transactionRows, result, dupeCount, page,
                   loadData, value, formatted>>

\* One turn of the page loop: pagedData.fetch({index: p}) and concat.
fetchPage ==
    /\ listPc = "fetch"
    /\ pageIndex < PageCount(transactionRows)
    /\ \E ok \in BOOLEAN :
        IF ok
        THEN /\ result' = [result EXCEPT !.transactions =
                                @ \o PageRows(transactionRows, pageIndex)]
             /\ pageIndex' = pageIndex + 1
             /\ UNCHANGED <<listPc, errorLogged>>
        ELSE /\ listPc' = "returned"
             /\ errorLogged' = TRUE
             /\ UNCHANGED <<result, pageIndex>>
    /\ UNCHANGED <<portalVars, pageVars, transactionRows, dupeCount, page,
                   loadData, value, formatted>>

\* After the last page: duplicates are counted and, if any, removed.
removeDuplicates ==
    /\ listPc = "fetch"
    /\ pageIndex = PageCount(transactionRows)
    /\ dupeCount' = DupeCount(result.transactions, {})
    /\ result' = IF dupeCount' > 0
                 THEN [result EXCEPT !.transactions = Deduped(@, {})]
                 ELSE result
    /\ listPc' = "returned"
    /\ UNCHANGED <<portalVars, pageVars, transactionRows, pageIndex, page,
                   loadData, value, formatted, errorLogged>>

\* buildPageHTML from the returned result: the totals, the three cards, the
\* data section and (when there are records) the table with its footer.
buildPageHTML ==
    /\ listPc = "returned"
    /\ LET transactions == result.transactions
           amount == [k \in 1..Len(transactions) |->
                        ParseFloatOr0(transactions[k].amount_remaining)]
           invoiceAmounts == SelectSeq(amount, LAMBDA a : a > 0)
           creditAmounts == SelectSeq(amount, LAMBDA a : a < 0)
           totalInvoices ==
               IF result.isTruncated THEN result.invoiceCount ELSE Len(invoiceAmounts)
           totalInvoiceAmount ==
               IF result.isTruncated THEN result.invoiceTotal ELSE Sum(invoiceAmounts)
           totalCredits ==
               IF result.isTruncated THEN result.creditCount ELSE Len(creditAmounts)
           totalCreditAmount ==
               IF result.isTruncated THEN result.creditTotal
               ELSE Sum([k \in 1..Len(creditAmounts) |-> Abs(creditAmounts[k])])
           totalNetAmount ==
               IF result.isTruncated THEN result.netTotal ELSE Sum(amount)
           totalRecords ==
               IF result.isTruncated THEN result.actualCount ELSE Len(transactions)
       IN page' =
            [rendered |-> TRUE,
             invoices |-> Card(totalInvoices, totalInvoiceAmount),
             credits |-> Card(totalCredits, totalCreditAmount),
             net |-> Card(totalInvoices + totalCredits, totalNetAmount),
             sectionCount |-> totalRecords,
             hasTable |-> totalRecords # 0,
             rows |-> IF totalRecords # 0
                      THEN [k \in 1..Len(transactions) |->
                              [id |-> transactions[k].id,
                               isCredit |-> amount[k] < 0,
                               text |-> formatCurrency(<<amount[k]>>)]]
                      ELSE <<>>,
             footer |-> IF totalRecords # 0
                        THEN Card(Len(transactions), Sum(amount))
                        ELSE NoCard]
    /\ listPc' = "done"
    /\ UNCHANGED <<portalVars, pageVars, transactionRows, result, pageIndex, dupeCount,
                   loadData, value, formatted, errorLogged>>

\* ------------------------------------------------- portal: GET ?loadData=true
\* The rows of runMainQuery: one per sales order, in tranid order.
\* total_unbilled_amount is the (negative) sum of the lines' netamount.
runMainQuery ==
    [o \in 1..Cardinality(Orders) |->
        [so_id |-> o,
         unbilled_line_count |-> LinesPerOrder,
         total_unbilled_amount |-> -1 * UnbilledAmount(o),
         queued_date |-> queued[o]]]

\* handleLoadData: the query runs inside the handler's try; the summary is
\* computed and written, or the catch writes the failure.
handleLoadData ==
    /\ listPc = "handleLoadData"
    /\ \E outcome \in {"ok"} \cup HostErrors :
        IF outcome = "ok"
        THEN /\ UNCHANGED errorLogged
             /\ LET salesOrders == runMainQuery
                    unbilledLines == [k \in 1..Len(salesOrders) |->
                                        salesOrders[k].unbilled_line_count]
                    unbilledAmt == [k \in 1..Len(salesOrders) |->
                                      salesOrders[k].total_unbilled_amount * (-1)]
                    isQueued == {k \in 1..Len(salesOrders) :
                                   salesOrders[k].queued_date # 0}
                IN loadData' =
                     [written |-> TRUE, success |-> TRUE, message |-> "",
                      summaryTotal |-> Len(salesOrders),
                      summaryTotalLines |-> Sum(unbilledLines),
                      summaryTotalAmount |-> Sum(unbilledAmt),
                      queuedTotal |-> Cardinality(isQueued),
                      queuedTotalLines |->
                          Sum([k \in 1..Len(salesOrders) |->
                                 IF k \in isQueued THEN unbilledLines[k] ELSE 0]),
                      queuedTotalAmount |->
                          Sum([k \in 1..Len(salesOrders) |->
                                 IF k \in isQueued THEN unbilledAmt[k] ELSE 0]),
                      tableBody |-> [k \in 1..Len(salesOrders) |-> salesOrders[k].so_id]]
        ELSE /\ errorLogged' = TRUE
             /\ loadData' = [NoLoadData EXCEPT !.written = TRUE, !.message = outcome]
    /\ listPc' = "loaded"
    /\ UNCHANGED <<portalVars, pageVars, transactionRows, result, pageIndex, dupeCount,
                   page, value, formatted>>

\* The values the loadData parameter of a portal GET takes.
LoadDataParams == {None, "true", "1"}

\* Fault model: a portal GET that loads the data whatever the parameter.
PortalGetRouteAlways(flag) == "handleLoadData"

\* handleGet of the portal: params.loadData === 'true' goes to handleLoadData,
\* every other request gets the empty page.
PortalGetRoute(flag) == IF flag = "true" THEN "handleLoadData" ELSE "shown"

\* Portal GET: the request is routed; the empty page (buildReportHTML(null),
\* response.writePage) needs no query.
handleGet ==
    /\ listPc = "idle"
    /\ \E flag \in LoadDataParams :
        /\ request' = [suitelet |-> "portal", method |-> "GET", loadData |-> flag]
        /\ listPc' = PortalGetRoute(flag)
    /\ UNCHANGED <<portalVars, selection, error, cleanMessage, transactionRows,
                   result, pageIndex, dupeCount, page, loadData, value, formatted,
                   errorLogged>>

\* The read request has returned; the next one starts from fresh locals.
readReturns ==
    /\ listPc \in {"done", "loaded", "shown"}
    /\ listPc' = "idle"
    /\ result' = EmptyResult
    /\ pageIndex' = 0
    /\ dupeCount' = 0
    /\ page' = NoPage
    /\ loadData' = NoLoadData
    /\ errorLogged' = FALSE
    /\ request' = NoRequest
    /\ UNCHANGED <<portalVars, selection, error, cleanMessage, transactionRows,
                   value, formatted>>

InitRead ==
    /\ PortalInit
    /\ ReadIdle
    /\ transactionRows \in RowSets
    /\ value = <<>>

NextRead ==
    \/ listOnRequest
    \/ handleGet
    \/ readReturns
    \/ runCountQuery
    \/ runSuiteQLPaged
    \/ fetchPage
    \/ removeDuplicates
    \/ buildPageHTML
    \/ handleLoadData

SpecRead == InitRead /\ [][NextRead]_vars

\* ------------------------------------------------- formatCurrency by itself
\* Arguments in cents: null, zero, both signs, one to eight integer digits.
Mantissas == {0, 1, 5, 12, 99, 999, 12345}
Scales == {1, 10, 100, 1000, 10000, 100000}
CurrencyValues ==
    {<<>>} \cup {<<sign * m * k>> : sign \in {-1, 1}, m \in Mantissas, k \in Scales}

formatCurrencyCall ==
    /\ formatted = <<>>
    /\ formatted' = formatCurrency(value)
    /\ UNCHANGED <<portalVars, pageVars, transactionRows, listPc, result, pageIndex,
                   dupeCount, page, loadData, value, errorLogged>>

InitFormat ==
    /\ PortalInit
    /\ ReadIdle
    /\ transactionRows = <<>>
    /\ value \in CurrencyValues

NextFormat == formatCurrencyCall

SpecFormat == InitFormat /\ [][NextFormat]_vars

\* ================================================================ properties
\* The handler of the request in hand (params is cleared when it returns).
Handler == Route(params)
InRequest == pc # "idle"
LastResponse == responses[Len(responses)]
Called(call, ok) == \E k \in DOMAIN ops : ops[k] = <<call, ok>>
Count(seq, x) == Cardinality({k \in DOMAIN seq : seq[k] = x})

GovernedHandlers == {"handleBulkClose", "handleBulkAutoBill", "handleBulkCBSI"}
BulkHandlers == GovernedHandlers \cup {"bulkQueue"}
Threshold(h) ==
    IF h = "handleBulkCBSI" THEN GOVERNANCE_THRESHOLD_CBSI ELSE GOVERNANCE_THRESHOLD

\* ---- C1
\* A read-back amount of a selected line differs from the invoice total.
ReadBackDiffers ==
    \/ wf.creditLineUpdated /\ wf.actualCreditAmount # wf.invoiceTotal
    \/ wf.invoiceLineUpdated /\ wf.actualApplyAmount # wf.invoiceTotal

\* C1: handleCBSIBillAndJE calls save on the payment only when a credit line
\* and an apply line were selected, the amount read back from the apply line
\* equals the amount read back from the credit line and the invoice total,
\* and |apply - credit| <= 0.01; when a read-back amount differs from the
\* invoice total, save is never called and the response is success = false.
C1_SaveOnlyWhenReconciled ==
    (InRequest /\ Handler = "handleCBSIBillAndJE") =>
        /\ (Called("save payment", TRUE) \/ Called("save payment", FALSE)) =>
              /\ wf.creditLineUpdated
              /\ wf.invoiceLineUpdated
              /\ wf.actualApplyAmount = wf.actualCreditAmount
              /\ wf.actualApplyAmount = wf.invoiceTotal
              /\ Abs(wf.actualApplyAmount - wf.actualCreditAmount) <= NET_EFFECT_TOLERANCE
        /\ (pc = "done" /\ ReadBackDiffers) =>
              /\ ~Called("save payment", TRUE)
              /\ ~Called("save payment", FALSE)
              /\ LastResponse.success = FALSE

\* C1 is exercised: a single-item run saved the payment of a non-zero invoice.
C1_Reached ==
    /\ pc = "done"
    /\ Handler = "handleCBSIBillAndJE"
    /\ Called("save payment", TRUE)
    /\ wf.invoiceTotal > 0
    /\ LastResponse.success

\* ---- C2
\* The lines of the payment reconcile: the journal entry's credit line and the
\* invoice's apply line are both selected for the invoice total.
BulkLinesReconciled(w) ==
    /\ \E c \in DOMAIN w.credit :
          w.credit[c].doc = "je" /\ w.credit[c].apply /\ w.credit[c].amount = w.invoiceTotal
    /\ \E j \in DOMAIN w.apply :
          w.apply[j].doc = "invoice" /\ w.apply[j].apply /\ w.apply[j].amount = w.invoiceTotal

\* C2: for every item of handleBulkCBSI, when no credit line of the journal
\* entry or no apply line of the invoice was selected, or the selected amounts
\* do not both equal the invoice total, the item is aborted before the payment
\* save: no host call is made, the id goes to failedIds and not to processedIds.
C2_BulkAbortsUnreconciled ==
    [][(pc = "handleBulkCBSI" /\ wf.step = "save" /\ ~BulkLinesReconciled(wf)) =>
          /\ ops' = ops
          /\ docs' = docs
          /\ failedIds' = Append(failedIds, soIdArray[i])
          /\ processedIds' = processedIds]_vars

\* ---- C3
\* C3: in handleBulkClose, handleBulkAutoBill and handleBulkCBSI, once the
\* budget read before item k+1 is below the handler's threshold, exactly k
\* items were attempted (length(processedIds) + length(failedIds) = k),
\* governanceStopped is true, the ids in the two lists are those of the first
\* k positions, and no host call was made for positions k+1..n.
C3_GovernanceStopLeavesRemainder ==
    (InRequest /\ Handler \in GovernedHandlers /\ remaining < Threshold(Handler)) =>
        LET k == i - 1
            n == Len(soIdArray)
        IN /\ governanceStopped
           /\ Len(processedIds) + Len(failedIds) = k
           /\ touched = 1..k
           /\ \A j \in (k + 1)..n : j \notin touched
           /\ \A o \in Orders :
                 Count(processedIds, o) + Count(failedIds, o) = Count(SubSeq(soIdArray, 1, k), o)
           /\ pc = "done" =>
                 /\ LastResponse.governanceStopped
                 /\ LastResponse.processedIds = processedIds
                 /\ LastResponse.failedIds = failedIds

\* C3 is exercised: handleBulkCBSI stopped before item 2 of 2 with a budget
\* that would still have admitted a close or an auto-bill.
C3_Reached ==
    /\ pc = "done"
    /\ Handler = "handleBulkCBSI"
    /\ governanceStopped
    /\ remaining >= GOVERNANCE_THRESHOLD
    /\ i = 2
    /\ Len(soIdArray) = 2
    /\ touched = {1}

\* ---- C4
\* C4: in every bulk handler (queue, close, auto-bill, CBSI) a host rejection
\* on item j does not stop the loop: the id is appended to failedIds (for
\* close with a message under that id in failureDetails) and item j+1 is then
\* attempted, unless the governance guard stops the batch.
C4_RejectionNeverStopsLoop ==
    (InRequest /\ Handler \in BulkHandlers) =>
        /\ Len(failedIds) = Cardinality(rejected)
        /\ \A j \in rejected :
              /\ Count(failedIds, soIdArray[j]) >= 1
              /\ Handler = "handleBulkClose" => failureDetails[soIdArray[j]] # ""
              /\ (pc = "done" /\ j < Len(soIdArray)) =>
                    (j + 1 \in touched \/ governanceStopped)
        /\ (pc # "done" /\ ~governanceStopped) => i <= Len(soIdArray) + 1
        /\ (pc = "done" /\ ~governanceStopped) => touched = 1..Len(soIdArray)

\* C4 is exercised: handleBulkClose had item 1 rejected and then closed item 2.
C4_Reached ==
    /\ pc = "done"
    /\ Handler = "handleBulkClose"
    /\ rejected = {1}
    /\ touched = {1, 2}
    /\ Len(processedIds) = 1
    /\ failureDetails[soIdArray[1]] # ""

\* ---- C5
\* The request names a known action with its soId, or (without an action) a
\* known or absent bulkAction with a selection.
WellFormed(p) ==
    \/ p.action \in Actions /\ p.soId # NoId
    \/ /\ p.action = None
       /\ p.bulkAction \in BulkActions \cup {None}
       /\ p.selectedSOIds # <<>>

\* C5: a request whose action or bulkAction is unknown, or whose required
\* parameter is missing (soId for a single action, selectedSOIds for a bulk
\* action), is answered {success: false, message} and no host call is made:
\* in particular the selected orders are not queued.
C5_MalformedRequestFails ==
    (pc = "done" /\ ~WellFormed(params)) =>
        /\ LastResponse.success = FALSE
        /\ LastResponse.message # ""
        /\ ops = <<>>
        /\ touched = {}

\* ---- C6
\* The messages of the errors STEP 7 throws.
ValidationMessages ==
    {"VALIDATION FAILED: Could not select target invoice",
     "VALIDATION FAILED: Could not select credit transaction (JE)",
     "VALIDATION FAILED: Amounts do not match.",
     "VALIDATION FAILED: Net effect is not zero"}

\* C6: in handleCBSIBillAndJE, once the payment is built, if no credit line
\* references the journal entry, or no apply line references the invoice, or
\* a line could not be set, the response is success = false with a validation
\* message and the payment is neither saved nor deleted.
C6_UnselectableLineIsHardFailure ==
    (/\ pc = "done"
     /\ Handler = "handleCBSIBillAndJE"
     /\ Called("transform payment", TRUE)
     /\ \/ ~\E c \in DOMAIN wf.credit : wf.credit[c].doc = "je"
        \/ ~\E j \in DOMAIN wf.apply : wf.apply[j].doc = "invoice"
        \/ ~wf.creditLineUpdated
        \/ ~wf.invoiceLineUpdated) =>
        /\ LastResponse.success = FALSE
        /\ \E m \in ValidationMessages : LastResponse.details = <<m>>
        /\ ~Called("save payment", TRUE)
        /\ ~Called("save payment", FALSE)
        /\ ~Called("delete payment", TRUE)
        /\ ~Called("delete payment", FALSE)

\* ---- C7
\* C7: when the delete of the saved payment throws, the outcome stands: the
\* single handler answers success = true with invoice number, journal entry
\* number and amount; handleBulkCBSI has the id in processedIds and the
\* position is not a failed one; invoice and journal entry stay as saved.
C7_DeleteFailureKeepsOutcome ==
    (InRequest /\ wf.step = "idle" /\ Called("delete payment", FALSE)) =>
        /\ Called("save payment", TRUE)
        /\ Len(docs) >= 3
        /\ docs[Len(docs) - 2].type = "invoice" /\ ~docs[Len(docs) - 2].deleted
        /\ docs[Len(docs) - 1].type = "journalentry" /\ ~docs[Len(docs) - 1].deleted
        /\ docs[Len(docs)].type = "customerpayment" /\ ~docs[Len(docs)].deleted
        /\ Handler = "handleCBSIBillAndJE" =>
              /\ pc = "done"
              /\ LastResponse.success
              /\ LastResponse.invoiceTranid = Tranid(Len(docs) - 2)
              /\ LastResponse.jeTranid = Tranid(Len(docs) - 1)
              /\ LastResponse.amount = wf.invoiceTotal
        /\ Handler = "handleBulkCBSI" =>
              /\ i > 1
              /\ processedIds # <<>>
              /\ processedIds[Len(processedIds)] = soIdArray[i - 1]
              /\ (i - 1) \notin rejected
              /\ Len(failedIds) = Cardinality(rejected)

\* C7 is exercised: handleBulkCBSI processed an item whose payment was saved
\* and could not be deleted.
C7_Reached ==
    /\ Handler = "handleBulkCBSI"
    /\ pc = "done"
    /\ Called("delete payment", FALSE)
    /\ processedIds # <<>>
    /\ failedIds = <<>>

\* ---- C8
\* C8: every bulk loop, the queue loop included, compares the remaining budget
\* with a fixed threshold before each item and stops with governanceStopped
\* when it is below; it stops only when strictly below (an item is processed
\* at budget = threshold); the CBSI threshold exceeds the other one.
C8_EveryBulkLoopIsGoverned ==
    [][/\ GOVERNANCE_THRESHOLD_CBSI > GOVERNANCE_THRESHOLD
       /\ (pc \in BulkHandlers /\ i <= Len(soIdArray) /\ remaining < Threshold(pc)) =>
             (touched' = touched /\ governanceStopped')
       /\ (pc \in BulkHandlers /\ ~governanceStopped /\ governanceStopped') =>
             remaining' < Threshold(pc)]_vars

\* ---- C9
\* C9: unqueue on an order whose timestamp is empty leaves it empty and
\* answers success = true; queue on a queued order overwrites the timestamp
\* with the current time and answers success = true; after any sequence of
\* accepted queue / unqueue calls on an order its timestamp is non-empty
\* exactly when the last of them was a queue.
C9_QueueUnqueueIdempotent ==
    /\ \A o \in Orders :
          calls[o] # <<>> => (queued[o] # 0 <=> calls[o][Len(calls[o])] = "queue")
    /\ (pc = "done" /\ Handler = "handleUnqueueSalesOrder" /\ Called("submitFields", TRUE)) =>
          /\ queued[params.soId] = 0
          /\ LastResponse.success
    /\ (pc = "done" /\ Handler = "handleQueueSingleSO" /\ Called("submitFields", TRUE)) =>
          /\ queued[params.soId] = now
          /\ now # 0
          /\ LastResponse.success

\* C9 is exercised: a second unqueue in a row on an order queued at the start.
C9_Reached ==
    /\ pc = "done"
    /\ Handler = "handleUnqueueSalesOrder"
    /\ params.soId = 2
    /\ calls[2] = <<"unqueue", "unqueue">>
    /\ queued[2] = 0
    /\ LastResponse.success

\* ---- C10
\* The ids of the selection as submitted, blank tokens aside.
Submitted == SelectSeq(params.selectedSOIds, LAMBDA t : t \in Orders)

\* C10: with a budget that never falls below the threshold and no host
\* rejection, handleBulkAutoBill returns processedIds equal to the submitted
\* list (same length, same order), failedIds empty, governanceStopped false,
\* and one invoice per list position, an order with nothing unbilled included.
C10_BulkAutoBillProcessesAll ==
    (pc = "done" /\ Handler = "handleBulkAutoBill" /\ ~governanceStopped /\ rejected = {}) =>
        /\ LastResponse.success
        /\ LastResponse.processedIds = Submitted
        /\ LastResponse.failedIds = <<>>
        /\ LastResponse.governanceStopped = FALSE
        /\ LastResponse.count = Len(Submitted)
        /\ Len(docs) = Len(Submitted)
        /\ \A j \in DOMAIN docs :
              /\ docs[j].type = "invoice"
              /\ docs[j].from = Submitted[j]
              /\ details[j] = [soId |-> Submitted[j], invoiceId |-> j]

\* C10 is exercised: the zero-amount order is second in a list of two and has
\* its invoice.
C10_Reached ==
    /\ pc = "done"
    /\ Handler = "handleBulkAutoBill"
    /\ ~governanceStopped
    /\ processedIds = <<2, 1>>
    /\ UnbilledAmount(processedIds[2]) = 0
    /\ Len(docs) = 2
    /\ docs[2].from = 1

\* ---------------------------------------------------- master list, read path
ZeroCard == Card(0, 0)

\* The rendered page shows no data: three zero cards, no table.
PageShowsNoData ==
    /\ page.invoices = ZeroCard
    /\ page.credits = ZeroCard
    /\ page.net = ZeroCard
    /\ page.sectionCount = 0
    /\ page.rows = <<>>
    /\ ~page.hasTable

\* C11: in the master list, once a query error (count query, paged query or
\* the fetch of any page) was caught, the returned result holds no
\* transactions -- the rows of earlier pages included -- and the page that
\* then renders shows zero counts and totals.
C11_QueryErrorGivesEmptyResult ==
    (errorLogged /\ listPc \in {"returned", "done"}) =>
        /\ result.transactions = <<>>
        /\ page.rendered => PageShowsNoData

\* C12: in the portal, a query error during GET ?loadData=true degrades to an
\* empty result: the response written is a success with no rows and zero
\* summary counts.
C12_LoadDataErrorGivesEmptyResult ==
    (loadData.written /\ errorLogged) =>
        /\ loadData.success
        /\ loadData.summaryTotal = 0
        /\ loadData.summaryTotalLines = 0
        /\ loadData.summaryTotalAmount = 0
        /\ loadData.tableBody = <<>>

\* The search ran to its end: every page fetched, the de-duplication done.
SearchCompleted == listPc \in {"returned", "done"} /\ ~errorLogged

IdsOf(rows) == {rows[k].id : k \in DOMAIN rows}

\* C13: for every fetched row sequence searchServiceTransactions returns
\* exactly one row per distinct transaction id -- the first occurrence, in
\* the original order -- and the duplicate count it reports is the number of
\* fetched rows minus the number of distinct ids.
C13_OneRowPerTransactionId ==
    SearchCompleted =>
        LET kept == result.transactions
        IN /\ IdsOf(kept) = IdsOf(transactionRows)
           /\ \A a, b \in DOMAIN kept :
                a < b => kept[a].id # kept[b].id /\ kept[a].line < kept[b].line
           /\ \A k \in DOMAIN kept :
                /\ kept[k] = transactionRows[kept[k].line]
                /\ \A j \in 1..(kept[k].line - 1) : transactionRows[j].id # kept[k].id
           /\ dupeCount = Len(transactionRows) - Cardinality(IdsOf(transactionRows))

\* C13 is exercised: three fetched rows, the third repeating the first id.
C13_Reached ==
    /\ SearchCompleted
    /\ Len(transactionRows) = 3
    /\ transactionRows[1].id = transactionRows[3].id
    /\ transactionRows[2].id # transactionRows[1].id
    /\ Len(result.transactions) = 2
    /\ dupeCount = 1

\* The signed remaining amounts of the rows handed to the page builder.
SignedAmounts ==
    [k \in DOMAIN result.transactions |->
        ParseFloatOr0(result.transactions[k].amount_remaining)]

\* The cards split the rows by the sign of the amount and add up.
SummaryMatchesRows ==
    LET positive == {k \in DOMAIN SignedAmounts : SignedAmounts[k] > 0}
        negative == {k \in DOMAIN SignedAmounts : SignedAmounts[k] < 0}
    IN /\ page.net.amount = Sum(SignedAmounts)
       /\ page.invoices.count = Cardinality(positive)
       /\ page.invoices.amount =
            Sum([k \in DOMAIN SignedAmounts |->
                    IF k \in positive THEN SignedAmounts[k] ELSE 0])
       /\ page.credits.count = Cardinality(negative)
       /\ page.credits.amount =
            Sum([k \in DOMAIN SignedAmounts |->
                    IF k \in negative THEN -SignedAmounts[k] ELSE 0])
       /\ page.net.amount = page.invoices.amount - page.credits.amount

\* C14: in the master list, for every de-duplicated row set the net total is
\* the sum of the rows' signed remaining amounts, the invoice count and total
\* cover exactly the rows with amount > 0, the credit count and total exactly
\* the rows with amount < 0, net total = invoice total - credit total, and
\* the record count on the Net Amount card is the number of rows in the table.
C14_SummaryCoversTheTable ==
    (page.rendered /\ SearchCompleted) =>
        /\ SummaryMatchesRows
        /\ page.net.count = Len(page.rows)
        /\ page.net.count = page.footer.count

\* ------------------------------------------------------------ close, CBSI
\* The line flags of an order before any close touched it.
LinesBefore(o) == [l \in 1..LinesPerOrder |-> l = o]
AllLinesClosed(o) == \A l \in 1..LinesPerOrder : closed[o][l]
SanitizedMessages == {getCleanErrorMessage(e) : e \in HostErrors}

\* C15: after a successful Close, single or bulk, every line item of the
\* order has its closed flag set whatever it was before; when the host
\* rejects the load or the save no flag change is persisted (lines are never
\* left partly changed, and in the first request, where the flags before are
\* the initial ones, they are exactly those) and the outcome
\* is a failure: success=false with the sanitized message (single), the id in
\* failedIds with the sanitized message in failureDetails (bulk).
C15_CloseIsAllOrNothing ==
    \* no state holds a partly closed order
    /\ \A o \in Orders : AllLinesClosed(o) \/ closed[o] = LinesBefore(o)
    /\ (pc = "done" /\ Handler = "handleCloseSalesOrder") =>
          /\ nreq = 1 => \A o \in Orders \ {params.soId} : closed[o] = LinesBefore(o)
          /\ IF Called("save", TRUE)
             THEN /\ LastResponse.success
                  /\ AllLinesClosed(params.soId)
             ELSE /\ ~LastResponse.success
                  /\ LastResponse.message = "Error closing Sales Order"
                  /\ Len(LastResponse.details) = 1
                  /\ LastResponse.details[1] \in SanitizedMessages
                  /\ nreq = 1 => closed[params.soId] = LinesBefore(params.soId)
    /\ (Handler = "handleBulkClose" /\ pc \in {"handleBulkClose", "done"}) =>
          /\ \A o \in Orders :
                IF \E k \in DOMAIN processedIds : processedIds[k] = o
                THEN AllLinesClosed(o)
                ELSE nreq = 1 => closed[o] = LinesBefore(o)
          /\ Len(processedIds) + Len(failedIds) = Cardinality(touched)
          /\ Len(failedIds) = Cardinality(rejected)
          /\ \A k \in DOMAIN failedIds :
                /\ \E j \in rejected : soIdArray[j] = failedIds[k]
                /\ failureDetails[failedIds[k]] \in SanitizedMessages

\* C15 is exercised: a bulk close of <<2, 1>> where order 2, one line closed
\* and one open before, is closed entirely, and the save of order 1 is
\* rejected and leaves its lines as they were.
C15_Reached ==
    /\ pc = "done"
    /\ nreq = 1
    /\ Handler = "handleBulkClose"
    /\ processedIds = <<2>>
    /\ failedIds = <<1>>
    /\ ops = <<<<"load", TRUE>>, <<"save", FALSE>>>>
    /\ LinesBefore(2) = <<FALSE, TRUE>>
    /\ AllLinesClosed(2)
    /\ closed[1] = LinesBefore(1)
    /\ failureDetails[1] =
          "Address validation error: Shipping address contains phone number."

\* The documents of a type the host persisted in this request, by id.
DocsOfType(type) == {k \in DOMAIN docs : docs[k].type = type}

\* C16: the single CBSI handler answers success=true exactly when the save
\* of the payment application returned without throwing, and the success
\* response carries the invoice number and the total read from the reloaded
\* invoice and the journal entry number read from the reloaded journal entry.
C16_SuccessIffPaymentSaved ==
    (pc = "done" /\ Handler = "handleCBSIBillAndJE") =>
        /\ LastResponse.success <=> Called("save payment", TRUE)
        /\ LastResponse.success =>
              /\ LastResponse.message = "CBSI Bill and JE completed successfully."
              /\ Called("load invoice", TRUE)
              /\ Called("load journal entry", TRUE)
              /\ \E k \in DocsOfType("invoice") :
                    /\ docs[k].from = params.soId
                    /\ LastResponse.invoiceTranid = Tranid(k)
              /\ \E k \in DocsOfType("journalentry") :
                    LastResponse.jeTranid = Tranid(k)
              /\ LastResponse.amount = Abs(wf.rawTotal)
        /\ ~LastResponse.success =>
              /\ LastResponse.message = "Error in CBSI Bill and JE"
              /\ DocsOfType("customerpayment") = {}

\* C16 is exercised: the payment was saved, its deletion was rejected, and the
\* response reports the absolute value of a negative invoice total.
C16_Reached ==
    /\ pc = "done"
    /\ Handler = "handleCBSIBillAndJE"
    /\ LastResponse.success
    /\ Called("save payment", TRUE)
    /\ Called("delete payment", FALSE)
    /\ wf.rawTotal = -1
    /\ LastResponse.amount = 1
    /\ LastResponse.invoiceTranid = Tranid(1)
    /\ LastResponse.jeTranid = Tranid(2)

\* ---------------------------------------------------------- formatCurrency
\* Reading a text back: the number a run of digit characters denotes.
DigitValue(c) == CHOOSE d \in 0..9 : Digit(d) = c

RECURSIVE DigitsValue(_)
DigitsValue(cs) ==
    IF cs = <<>> THEN 0
    ELSE 10 * DigitsValue(SubSeq(cs, 1, Len(cs) - 1)) + DigitValue(cs[Len(cs)])

\* text is an amount of `cents` without sign: integer digits grouped by
\* commas every three digits from the right, a point, exactly two decimals.
IsGroupedAmount(text, cents) ==
    /\ Len(text) >= 4
    /\ text[Len(text) - 2] = "."
    /\ LET whole == SubSeq(text, 1, Len(text) - 3)
           decimals == SubSeq(text, Len(text) - 1, Len(text))
           fromRight(k) == Len(whole) - k + 1
       IN /\ \A k \in DOMAIN decimals : IsDigit(decimals[k])
          /\ \A k \in DOMAIN whole :
                IF fromRight(k) % 4 = 0 THEN whole[k] = "," ELSE IsDigit(whole[k])
          /\ whole[1] # ","
          /\ whole[1] = "0" => Len(whole) = 1
          /\ 100 * DigitsValue(SelectSeq(whole, IsDigit)) + DigitsValue(decimals) = cents

\* C17: formatCurrency returns "-" for a null or undefined value, and
\* otherwise the sign prefix ("-$" for a negative, "$" for zero or a positive
\* value) followed by the absolute value with exactly two decimals and comma
\* grouping every three integer digits; formatCurrency(-1234.5) = "-$1,234.50"
\* and formatCurrency(0) = "$0.00".
C17_FormatCurrency ==
    formatted # <<>> =>
        /\ value = <<>> => formatted = <<"-">>
        /\ value # <<>> =>
              LET sign == IF value[1] < 0 THEN <<"-", "$">> ELSE <<"$">>
              IN /\ Len(formatted) > Len(sign)
                 /\ SubSeq(formatted, 1, Len(sign)) = sign
                 /\ IsGroupedAmount(SubSeq(formatted, Len(sign) + 1, Len(formatted)),
                                    Abs(value[1]))
        /\ value = <<-123450>> =>
              formatted = <<"-", "$", "1", ",", "2", "3", "4", ".", "5", "0">>
        /\ value = <<0>> => formatted = <<"$", "0", ".", "0", "0">>

\* C17 is exercised: -1234.5 was formatted.
C17_Reached ==
    /\ value = <<-123450>>
    /\ formatted = <<"-", "$", "1", ",", "2", "3", "4", ".", "5", "0">>

\* The host calls of one CBSI workflow, in program order.
WorkflowOrder ==
    <<"transform invoice", "save invoice", "load invoice",
      "save journal entry", "load journal entry",
      "transform payment", "save payment", "delete payment">>

InCBSI == Handler \in {"handleCBSIBillAndJE", "handleBulkCBSI"} /\ InRequest

\* C18: in a CBSI workflow, single or bulk, the host operations come in the
\* order transform invoice, save invoice, reload invoice, create and save the
\* journal entry, reload it, transform the payment, save it, delete it: the
\* calls made for an order are a prefix of that list and only the last one
\* can have been rejected.  So the journal entry is never saved before the
\* invoice save succeeded, the payment never before the journal entry save
\* succeeded, and the delete is attempted at most once, after the payment
\* save succeeded.
C18_WorkflowOrder ==
    InCBSI =>
        /\ Len(ops) <= Len(WorkflowOrder)
        /\ \A k \in DOMAIN ops :
              /\ ops[k][1] = WorkflowOrder[k]
              /\ k < Len(ops) => ops[k][2]
        /\ Called("save journal entry", TRUE) \/ Called("save journal entry", FALSE)
              => Called("save invoice", TRUE)
        /\ Called("save payment", TRUE) \/ Called("save payment", FALSE)
              => Called("save journal entry", TRUE)
        /\ Called("delete payment", TRUE) \/ Called("delete payment", FALSE)
              => Called("save payment", TRUE)
        /\ Cardinality({k \in DOMAIN ops : ops[k][1] = "delete payment"}) <= 1

\* C18 is exercised: a bulk item went through all eight calls, the delete
\* being rejected.
C18_Reached ==
    /\ Handler = "handleBulkCBSI"
    /\ InRequest
    /\ Len(ops) = Len(WorkflowOrder)
    /\ \A k \in DOMAIN ops : ops[k][1] = WorkflowOrder[k]
    /\ ops[Len(ops)] = <<"delete payment", FALSE>>
    /\ processedIds # <<>>

\* C19: every journal entry created is balanced and tied to the invoice: the
\* debit of line 0 and the credit of line 1 both equal the absolute value of
\* the total read from the reloaded invoice, the payment amount set on the
\* customer payment is that same value, and it is never negative.
C19_JournalEntryBalanced ==
    (InCBSI /\ wf.jeId # 0) =>
        /\ wf.jeDebit = Abs(wf.rawTotal)
        /\ wf.jeCredit = Abs(wf.rawTotal)
        /\ wf.jeDebit = wf.jeCredit
        /\ wf.jeDebit >= 0
        /\ docs[wf.jeId].type = "journalentry"
        /\ docs[wf.jeId].from = wf.invoiceId
        /\ Called("transform payment", TRUE) => wf.payment = Abs(wf.rawTotal)

\* C19 is exercised: a bulk item whose reloaded invoice reads a negative total
\* has its journal entry and its payment at the absolute value.
C19_Reached ==
    /\ Handler = "handleBulkCBSI"
    /\ InRequest
    /\ wf.step = "save"
    /\ wf.rawTotal = -1
    /\ wf.jeDebit = 1
    /\ wf.jeCredit = 1
    /\ wf.payment = 1

\* The credit lines the workflow marked as applied.
AppliedCredits == {c \in DOMAIN wf.credit : wf.credit[c].apply}

\* C20: CBSI marks a credit line as applied only if the document the line
\* references is the journal entry just created, and marks at most one; a
\* credit line that references a different document is never selected, in
\* the single handler as in the bulk handler.
C20_OnlyTheJournalEntryIsApplied ==
    InCBSI =>
        /\ \A c \in AppliedCredits : wf.credit[c].doc = "je"
        /\ Cardinality(AppliedCredits) <= 1

\* ------------------------------------------------------ C21 .. C30
\* The payment of the workflow in hand is being saved, or its save was called.
PaymentAtSave ==
    \/ Called("save payment", TRUE) /\ Handler = "handleCBSIBillAndJE"
    \/ Called("save payment", FALSE) /\ Handler = "handleCBSIBillAndJE"
    \/ pc = "handleBulkCBSI" /\ wf.step = "save"

\* C21: at the moment the CBSI workflow saves the payment, the only apply
\* line marked applied is the one of the newly created invoice: every apply
\* line the host pre-selected on transform has been cleared (apply=false,
\* amount=0), also when clearing an individual line throws.
C21_OnlyTheInvoiceLineIsApplied ==
    (InCBSI /\ PaymentAtSave) =>
        \A j \in DOMAIN wf.apply :
            /\ wf.apply[j].apply => wf.apply[j].doc = "invoice"
            /\ wf.apply[j].doc # "invoice" => wf.apply[j].amount = 0

\* ------------------------------------------------------------ resumption
\* The client script of the portal page: executeBulkAction posts the checked
\* rows, handleBulkActionResponse updates the check boxes from the response.

\* The rows a user can have checked, in table order (each order has one row).
Selections ==
    {s \in SeqsUpTo(Orders, MaxBatch) :
        s # <<>> /\ \A a, b \in DOMAIN s : a < b => s[a] < s[b]}

\* The bulk actions whose handler has a governance guard.
ResumableActions == {"close", "auto-bill", "cbsi-bill-je"}

\* handleBulkActionResponse, close / auto-bill / cbsi-bill-je branch: after a
\* governance stop the check box of every processed id is cleared; without
\* one the processed rows are hidden and their boxes stay as they are.
Unchecked(checked, resp) ==
    IF resp.governanceStopped
    THEN SelectSeq(checked, LAMBDA id :
             ~\E k \in DOMAIN resp.processedIds : resp.processedIds[k] = id)
    ELSE checked

\* xhr.onreadystatechange: a response with success calls
\* handleBulkActionResponse, any other only raises an alert.
handleBulkActionResponse ==
    /\ pc = "done"
    /\ responses # <<>>
    /\ selection' = IF responses[Len(responses)].success
                    THEN Unchecked(selection, responses[Len(responses)])
                    ELSE selection
    /\ pc' = "page"
    /\ UNCHANGED <<now, hostVars, nreq, params, remaining, wf, docs, ops,
                   loopVars, responses>>
    /\ UNCHANGED <<transactionRows, listPc, result, pageIndex, dupeCount, page,
                   loadData, value, formatted, errorLogged, error, cleanMessage,
                   request>>

\* executeBulkAction: the checked rows are posted with the chosen action and
\* handlePost routes the request, which starts with a fresh usage budget.
\* A user who resumes does so after a governance stop, with the same action.
executeBulkAction ==
    /\ pc \in {"idle", "page"}
    /\ pc = "page" => governanceStopped
    /\ selection # <<>>
    /\ \E action \in ResumableActions :
        /\ pc = "page" => action = params.bulkAction
        /\ params' = [action |-> None, soId |-> NoId, selectedSOIds |-> selection,
                      bulkAction |-> action, note |-> "", followUpDate |-> <<>>]
    /\ pc' = Route(params')
    /\ soIdArray' = ParseIds(selection)
    /\ remaining' = FullUsage
    /\ i' = 1
    /\ processedIds' = <<>>
    /\ failedIds' = <<>>
    /\ failureDetails' = [o \in Orders |-> ""]
    /\ governanceStopped' = FALSE
    /\ details' = <<>>
    /\ wf' = NoWorkflow
    /\ docs' = <<>>
    /\ ops' = <<>>
    /\ touched' = {}
    /\ rejected' = {}
    /\ responses' = <<>>
    /\ UNCHANGED <<now, nreq, hostVars>>
    /\ UNCHANGED <<transactionRows, listPc, result, pageIndex, dupeCount, page,
                   loadData, value, formatted, errorLogged, selection, error,
                   cleanMessage, request>>

\* The fresh budget of a request admits its first item: the governance check
\* at the head of the first iteration does not stop the loop.
AdmitsFirstItem == i = 1 => ~governanceStopped'

InitResume ==
    /\ PortalInit
    /\ transactionRows = <<>>
    /\ value = <<>>
    /\ listPc = "idle"
    /\ result = EmptyResult
    /\ pageIndex = 0
    /\ dupeCount = 0
    /\ page = NoPage
    /\ loadData = NoLoadData
    /\ formatted = <<>>
    /\ errorLogged = FALSE
    /\ error = <<>>
    /\ cleanMessage = <<>>
    /\ request = NoRequest
    /\ selection \in Selections

bulkCloseItemAdmitted == handleBulkCloseItem /\ AdmitsFirstItem
bulkAutoBillItemAdmitted == handleBulkAutoBillItem /\ AdmitsFirstItem
bulkCBSICheckAdmitted == handleBulkCBSICheck /\ AdmitsFirstItem

NextResume ==
    \/ executeBulkAction
    \/ handleBulkActionResponse
    \/ bulkCloseItemAdmitted
    \/ handleBulkCloseRespond
    \/ bulkAutoBillItemAdmitted
    \/ handleBulkAutoBillRespond
    \/ bulkCBSICheckAdmitted
    \/ cbsiCreateInvoice
    \/ cbsiCreateJournalEntry
    \/ cbsiTransformPayment
    \/ cbsiSelectCredit
    \/ cbsiSelectInvoice
    \/ cbsiSavePayment
    \/ handleBulkCBSIRespond

\* The server runs a request to its response and the user keeps resuming:
\* every step that stays possible is eventually taken.
SpecResume ==
    /\ InitResume
    /\ [][NextResume]_vars
    /\ WF_vars(NextResume)

\* The order is attempted in the request in hand: a host call was made for a
\* list position that holds it.
Attempted(o) == \E k \in touched : k \in DOMAIN soIdArray /\ soIdArray[k] = o

\* C22: when the user resubmits the remaining selection after every
\* governance stop, with a budget that admits the first item of each
\* request, every order that is selected is eventually attempted.
C22_EverySelectedIdIsAttempted ==
    \A o \in Orders :
        (\E k \in DOMAIN selection : selection[k] = o) ~> Attempted(o)

\* ---- C23
\* The invoices derived from an order in this request, and the journal
\* entries written for those invoices.
InvoicesOf(o) == {k \in DocsOfType("invoice") : docs[k].from = o}
JournalEntriesOf(o) ==
    {k \in DocsOfType("journalentry") : docs[k].from \in InvoicesOf(o)}

AppliedBy(k) == \E j \in DocsOfType("customerpayment") : docs[j].from = k

\* The order is among the failed ids of the bulk request in hand.
ReportedFailed(o) == \E k \in DOMAIN failedIds : failedIds[k] = o

\* C24: the CBSI handlers undo nothing. Single handler: when the invoice was
\* saved and the payment application was not, the response is a failure and
\* the invoice -- and the journal entry when its save returned -- are still
\* stored, with no payment application. Bulk handler: at the response every
\* stored invoice without a payment application, and every journal entry
\* written for it, is still stored and belongs to an order in failedIds.
C24_NoCompensation ==
    /\ (/\ pc = "done"
        /\ Handler = "handleCBSIBillAndJE"
        /\ Called("save invoice", TRUE)
        /\ ~Called("save payment", TRUE)) =>
            /\ ~LastResponse.success
            /\ Cardinality(DocsOfType("invoice")) = 1
            /\ Cardinality(DocsOfType("journalentry")) =
                  (IF Called("save journal entry", TRUE) THEN 1 ELSE 0)
            /\ DocsOfType("customerpayment") = {}
            /\ \A k \in DOMAIN docs : ~docs[k].deleted
    /\ (pc = "done" /\ Handler = "handleBulkCBSI") =>
            /\ \A k \in DocsOfType("invoice") :
                  ~AppliedBy(k) => (~docs[k].deleted /\ ReportedFailed(docs[k].from))
            /\ \A j \in DocsOfType("journalentry") :
                  ~AppliedBy(docs[j].from) =>
                      (~docs[j].deleted /\ ReportedFailed(docs[docs[j].from].from))

\* C24 is exercised: a bulk CBSI request ends with a failed order whose
\* invoice and journal entry are stored and no payment application exists.
C24_Reached ==
    /\ pc = "done"
    /\ Handler = "handleBulkCBSI"
    /\ failedIds # <<>>
    /\ DocsOfType("invoice") # {}
    /\ DocsOfType("journalentry") # {}
    /\ DocsOfType("customerpayment") = {}

\* ---- C25
\* The elements of a sequence at the positions of a set, in sequence order.
RECURSIVE Picked(_, _)
Picked(seq, positions) ==
    IF seq = <<>> THEN <<>>
    ELSE LET front == Picked(SubSeq(seq, 1, Len(seq) - 1), positions)
         IN IF Len(seq) \in positions THEN Append(front, seq[Len(seq)]) ELSE front

\* C25: when a bulk handler (the queue loop included) answers, the attempted
\* list positions are a prefix of the parsed list, processedIds holds the ids
\* of the attempted positions the host accepted and failedIds those it
\* rejected, both in list order, so every attempted position is in exactly
\* one of them; without a governance stop the two lengths add up to the
\* length of the list.
C25_BulkBookkeeping ==
    (pc = "done" /\ Handler \in BulkHandlers) =>
        /\ touched = 1 .. Cardinality(touched)
        /\ touched \subseteq DOMAIN soIdArray
        /\ rejected \subseteq touched
        /\ processedIds = Picked(soIdArray, touched \ rejected)
        /\ failedIds = Picked(soIdArray, rejected)
        /\ LastResponse.processedIds = processedIds
        /\ LastResponse.failedIds = failedIds
        /\ ~governanceStopped =>
              Len(processedIds) + Len(failedIds) = Len(soIdArray)

\* C25 is exercised: a bulk close of two orders in which the first is
\* rejected and the second is closed.
C25_Reached ==
    /\ pc = "done"
    /\ Handler = "handleBulkClose"
    /\ ~governanceStopped
    /\ Len(soIdArray) = 2
    /\ rejected = {1}
    /\ touched = {1, 2}
    /\ failedIds = <<soIdArray[1]>>
    /\ processedIds = <<soIdArray[2]>>

\* ---- C26
\* C26: the response of a bulk handler (the queue loop included) says
\* success = TRUE whatever happened to the items, and its count is the length
\* of the processedIds (queuedIds) it carries, which are the handler's.
C26_BulkResponseAlwaysSucceeds ==
    (pc = "done" /\ Handler \in BulkHandlers) =>
        /\ LastResponse.success
        /\ LastResponse.processedIds = processedIds
        /\ LastResponse.count = Len(LastResponse.processedIds)

\* C26 is exercised: a governance stop before the first item, answered with
\* success and count 0.
C26_Reached ==
    /\ pc = "done"
    /\ Handler = "handleBulkCBSI"
    /\ governanceStopped
    /\ touched = {}
    /\ soIdArray # <<>>
    /\ LastResponse.success
    /\ LastResponse.count = 0

HostUntouched ==
    /\ queued = [o \in Orders |-> IF o = 1 THEN 0 ELSE 1]
    /\ calls = [o \in Orders |-> <<>>]
    /\ closed = [o \in Orders |-> [l \in 1..LinesPerOrder |-> l = o]]
    /\ research = [o \in Orders |-> [note |-> "", followUp |-> <<>>]]
    /\ docs = <<>>
    /\ ops = <<>>

\* No query has run in the read request in hand.
NoQueryRan ==
    /\ result = EmptyResult
    /\ loadData = NoLoadData
    /\ ~errorLogged
    /\ ~page.rendered

\* C28: after any sequence of master list requests (GET or POST) and portal
\* GETs no host record has changed and no document exists; a portal GET whose
\* loadData parameter is not 'true' never enters handleLoadData and runs no
\* query.
C28_ReadPathsMutateNothing ==
    /\ HostUntouched
    /\ (request.suitelet = "portal" /\ request.loadData # "true") =>
          (listPc = "shown" /\ NoQueryRan)
    /\ listPc = "shown" => (request.suitelet = "portal" /\ NoQueryRan)

\* C28 is exercised: a master list POST has rendered its table from the query
\* rows.
C28_Reached ==
    /\ request.suitelet = "master list"
    /\ request.method = "POST"
    /\ listPc = "done"
    /\ page.rendered
    /\ page.hasTable
    /\ HostUntouched

\* A portal GET with loadData = '1' was answered with the empty page.
C28_PlainGetReached ==
    /\ request = [suitelet |-> "portal", method |-> "GET", loadData |-> "1"]
    /\ listPc = "shown"

\* ---- C29
\* The follow-up date the host must hold for a followUpDate parameter:
\* '2025-03-07' is written as 3/7/2025, every other value as the empty string.
ExpectedFollowUp(dateParts) ==
    IF dateParts = <<<<2, 0, 2, 5>>, <<0, 3>>, <<0, 7>>>>
    THEN <<3, 7, <<2, 0, 2, 5>>>>
    ELSE <<>>

\* C29: an accepted add-note request leaves the order with exactly the note
\* and the converted follow-up date of the request, whatever it held before
\* (an empty note is stored as '' and answered 'Research note cleared.', an
\* absent or two-part date empties the field); a rejected one is answered
\* with a failure. The request touches nothing else: in a first request the
\* other order's note, the queued timestamps and the line flags are as
\* constructed, and a rejected request leaves the order's note too.
C29_AddResearchNoteWritesBothFields ==
    (pc = "done" /\ Handler = "handleAddResearchNote") =>
        /\ LastResponse.success = Called("submitFields", TRUE)
        /\ LastResponse.success =>
              /\ research[params.soId] =
                    [note |-> params.note,
                     followUp |-> ExpectedFollowUp(params.followUpDate)]
              /\ LastResponse.message =
                    (IF params.note = "" THEN "Research note cleared."
                     ELSE "Research note saved.")
        /\ nreq = 1 =>
              /\ queued = [o \in Orders |-> IF o = 1 THEN 0 ELSE 1]
              /\ calls = [o \in Orders |-> <<>>]
              /\ closed = [o \in Orders |-> [l \in 1..LinesPerOrder |-> l = o]]
              /\ \A o \in Orders :
                    (o # params.soId \/ ~LastResponse.success) =>
                        research[o] = [note |-> "", followUp |-> <<>>]
        /\ docs = <<>>

\* C29 is exercised: a second add-note request with an empty note and a
\* date of two parts is accepted and leaves the order without note and date.
C29_Reached ==
    /\ pc = "done"
    /\ Handler = "handleAddResearchNote"
    /\ nreq = 2
    /\ params.note = ""
    /\ Len(params.followUpDate) = 2
    /\ LastResponse.success
    /\ LastResponse.message = "Research note cleared."
    /\ research[params.soId] = [note |-> "", followUp |-> <<>>]

\* An accepted request with the date 2025-03-07 stored 3/7/2025.
C29_DateReached ==
    /\ pc = "done"
    /\ Handler = "handleAddResearchNote"
    /\ LastResponse.success
    /\ research[params.soId].followUp = <<3, 7, <<2, 0, 2, 5>>>>

\* ------------------------------------------------- getCleanErrorMessage
\* A message is a sequence of characters; LF is the line feed, "\\" the
\* backslash. The function is applied to one error; null is <<>>, an error
\* object is <<message>>.
LF == "LF"
Text_AddressValidationFailed ==
    <<"A", "d", "d", "r", "e", "s", "s", " ", "V", "a", "l", "i", "d", "a",
      "t", "i", "o", "n", " ", "F", "a", "i", "l", "e", "d">>
Text_PleaseEnterValues ==
    <<"P", "l", "e", "a", "s", "e", " ", "e", "n", "t", "e", "r", " ", "v",
      "a", "l", "u", "e", "(", "s", ")", " ", "f", "o", "r", ":">>
Text_AddressValidationError ==
    <<"A", "d", "d", "r", "e", "s", "s", " ", "v", "a", "l", "i", "d", "a",
      "t", "i", "o", "n", " ", "e", "r", "r", "o", "r", ":", " ", "S", "h",
      "i", "p", "p", "i", "n", "g", " ", "a", "d", "d", "r", "e", "s", "s",
      " ", "c", "o", "n", "t", "a", "i", "n", "s", " ", "p", "h", "o", "n",
      "e", " ", "n", "u", "m", "b", "e", "r", ".", " ", "P", "l", "e", "a",
      "s", "e", " ", "f", "i", "x", " ", "t", "h", "e", " ", "a", "d", "d",
      "r", "e", "s", "s", " ", "o", "n", " ", "t", "h", "i", "s", " ", "S",
      "a", "l", "e", "s", " ", "O", "r", "d", "e", "r", ".">>
Text_MissingRequiredField ==
    <<"M", "i", "s", "s", "i", "n", "g", " ", "r", "e", "q", "u", "i", "r",
      "e", "d", " ", "f", "i", "e", "l", "d", ":", " ">>
Text_UnknownError ==
    <<"U", "n", "k", "n", "o", "w", "n", " ", "e", "r", "r", "o", "r">>
Text_Ellipsis == <<".", ".", ".">>

\* message.length above which the first line is cut.
MaxCleanLength == 200

\* String.prototype.indexOf: 0-based position of the first occurrence, -1 if none.
IndexOf(s, pattern) ==
    LET hits == {k \in 1..(Len(s) - Len(pattern) + 1) :
                    SubSeq(s, k, k + Len(pattern) - 1) = pattern}
    IN IF hits = {} THEN -1
       ELSE (CHOOSE k \in hits : \A h \in hits : k <= h) - 1

\* s.split(separator)[0]
SplitFirst(s, separator) ==
    IF IndexOf(s, separator) = -1 THEN s ELSE SubSeq(s, 1, IndexOf(s, separator))

\* s.substring(0, n)
Substring0(s, n) == SubSeq(s, 1, IF Len(s) < n THEN Len(s) ELSE n)

\* message.match(/Please enter value\(s\) for: (.+?)(?:\n|$)/): the first
\* place where the text and a blank are followed by a character other than
\* a line feed; group 1 runs to the next line feed or to the end. <<>> when
\* nothing matches, else <<group 1>>.
MatchRequiredField(message) ==
    LET head == Append(Text_PleaseEnterValues, " ")
        hits == {k \in 1..(Len(message) - Len(head)) :
                    /\ SubSeq(message, k, k + Len(head) - 1) = head
                    /\ message[k + Len(head)] # LF}
    IN IF hits = {} THEN <<>>
       ELSE LET k == CHOOSE h \in hits : \A g \in hits : h <= g
                rest == SubSeq(message, k + Len(head), Len(message))
            IN <<SplitFirst(rest, <<LF>>)>>

\* Fault model: the separator of the first-line test as a line feed.
LineSeparatorLineFeed == <<LF>>

\* The string literal '\\n' of the first-line test: a backslash and an n.
LineSeparator == <<"\\", "n">>

\* getCleanErrorMessage(error), on the text of the message.
getCleanErrorMessageText(err) ==
    IF err = <<>> THEN Text_UnknownError
    ELSE LET message == err[1]
         IN IF IndexOf(message, Text_AddressValidationFailed) >= 0
            THEN Text_AddressValidationError
            ELSE IF IndexOf(message, Text_PleaseEnterValues) >= 0
            THEN IF MatchRequiredField(message) # <<>>
                 THEN Text_MissingRequiredField \o MatchRequiredField(message)[1]
                 ELSE message
            ELSE IF Len(message) > MaxCleanLength \/ IndexOf(message, LineSeparator) >= 0
            THEN LET firstLine == SplitFirst(message, LineSeparator)
                 IN IF Len(firstLine) > MaxCleanLength
                    THEN Substring0(firstLine, MaxCleanLength) \o Text_Ellipsis
                    ELSE firstLine
            ELSE message

\* The messages the function is applied to: a run of letters, then nothing, a
\* line feed or a backslash and an n, then a second run; and the two host
\* texts the function knows, alone and followed by a field name.
FirstRunLengths == {1, 2, 198, 199, 200, 201, 202}
SecondRunLengths == {0, 1, 2, 3}
Run(n) == [k \in 1..n |-> "a"]
PlainMessages ==
    {Run(n) \o sep \o Run(t) :
        n \in FirstRunLengths, sep \in {<<>>, <<LF>>, <<"\\", "n">>},
        t \in SecondRunLengths}
KnownMessages ==
    {Run(n) \o Text_AddressValidationFailed \o Run(t) :
        n \in {0, 1}, t \in {0, 1}}
    \cup {Text_PleaseEnterValues \o tail :
            tail \in {<<>>, <<" ">>, <<" ", "a">>, <<" ", "a", LF, "a">>,
                      <<" ", LF, "a">>}}
Errors == {<<>>} \cup {<<m>> : m \in PlainMessages \cup KnownMessages}

getCleanErrorMessageCall ==
    /\ cleanMessage = <<>>
    /\ cleanMessage' = <<getCleanErrorMessageText(error)>>
    /\ UNCHANGED <<portalVars, selection, error, request, transactionRows, listPc,
                   result, pageIndex, dupeCount, page, loadData, value, formatted,
                   errorLogged>>

InitClean ==
    /\ PortalInit
    /\ transactionRows = <<>>
    /\ value = <<>>
    /\ listPc = "idle"
    /\ result = EmptyResult
    /\ pageIndex = 0
    /\ dupeCount = 0
    /\ page = NoPage
    /\ loadData = NoLoadData
    /\ formatted = <<>>
    /\ errorLogged = FALSE
    /\ selection = <<>>
    /\ request = NoRequest
    /\ cleanMessage = <<>>
    /\ error \in Errors

NextClean == getCleanErrorMessageCall

SpecClean == InitClean /\ [][NextClean]_vars

\* ---- C30
\* The error matches none of the texts the function knows.
NoKnownPattern ==
    /\ error # <<>>
    /\ IndexOf(error[1], Text_AddressValidationFailed) = -1
    /\ IndexOf(error[1], Text_PleaseEnterValues) = -1

\* The first line of a message: what precedes its first line feed.
FirstLine(message) == SplitFirst(message, <<LF>>)

\* C30: for an error that matches no known text the function returns the
\* first line of the message, cut to 200 characters and '...' when that line
\* is longer, so the returned text holds no line feed; null gives
\* 'Unknown error'.
C30_OnlyTheFirstLine ==
    cleanMessage # <<>> =>
        /\ error = <<>> => cleanMessage[1] = Text_UnknownError
        /\ NoKnownPattern =>
              /\ cleanMessage[1] =
                    (IF Len(FirstLine(error[1])) > MaxCleanLength
                     THEN Substring0(FirstLine(error[1]), MaxCleanLength) \o Text_Ellipsis
                     ELSE FirstLine(error[1]))
              /\ IndexOf(cleanMessage[1], <<LF>>) = -1
====
